---------------------------- MODULE Spec2Model ----------------------------
(***************************************************************************)
(* Smart Task Planner: the rule-based engine LocalAIService                *)
(* (app/services/local_ai_service.py).                                     *)
(*                                                                         *)
(* Python values are tagged records (PyNone, PyStr, PyInt); text is a TLA+ *)
(* string and every string operation of the code (lower, in, replace,      *)
(* f-string interpolation) is computed character by character.  A Python   *)
(* exception is the record Raise(msg); try/except is the operator that     *)
(* inspects it.                                                            *)
(*                                                                         *)
(* The routers (app/routers) keep goals, plans and tasks in the database:  *)
(* each table is a function from the ids of its rows to the rows.          *)
(***************************************************************************)
EXTENDS Integers, Sequences, FiniteSets, TLC

VARIABLES
    task_templates,     \* LocalAIService.task_templates
    priority_keywords,  \* LocalAIService.priority_keywords
    pending,            \* the call made and not yet run: op, args
    last,               \* the call that returned last: op, args, outcome
    prev,               \* a call that returned before it
    db_goals,           \* table goals: id -> row
    db_plans,           \* table plans: id -> row
    db_tasks,           \* table tasks: id -> row
    response,           \* the HTTP response sent last
    served              \* the number of requests the routers have answered

vars == <<task_templates, priority_keywords, pending, last, prev,
          db_goals, db_plans, db_tasks, response, served>>

\* the database, and what the last request was answered
store == <<db_goals, db_plans, db_tasks, response, served>>

---------------------------------------------------------------------------
(* Python values *)

PyNone == [kind |-> "none", s |-> "", n |-> 0]
PyStr(x) == [kind |-> "str", s |-> x, n |-> 0]
PyInt(x) == [kind |-> "int", s |-> "", n |-> x]

IsStr(v) == v.kind = "str"
IsInt(v) == v.kind = "int"
IsNone(v) == v.kind = "none"

\* truthiness: None, 0 and "" are falsy
Truthy(v) ==
    CASE v.kind = "none" -> FALSE
      [] v.kind = "int" -> v.n # 0
      [] v.kind = "str" -> v.s # ""

\* An exception in flight, carrying str(e)
Raise(msg) == [raised |-> TRUE, msg |-> msg]
Ok(v) == [raised |-> FALSE, value |-> v]

\* Python's floor division and the comparison  a > b / c  (true division),
\* for c > 0
FloorDiv(a, c) == a \div c
GtQuotient(a, b, c) == a * c > b

Max(a, b) == IF a >= b THEN a ELSE b

---------------------------------------------------------------------------
(* str operations *)

UpperChars == "ABCDEFGHIJKLMNOPQRSTUVWXYZ"
LowerChars == "abcdefghijklmnopqrstuvwxyz"

CharAt(s, i) == SubSeq(s, i, i)

UpperSet == {CharAt(UpperChars, k) : k \in 1..Len(UpperChars)}

LowerChar(c) ==
    IF c \in UpperSet
    THEN CharAt(LowerChars, CHOOSE k \in 1..Len(UpperChars) : CharAt(UpperChars, k) = c)
    ELSE c

\* str.lower(): every character mapped, halves joined
RECURSIVE Lower(_)
Lower(s) ==
    IF Len(s) = 0 THEN ""
    ELSE IF Len(s) = 1 THEN LowerChar(s)
    ELSE Lower(SubSeq(s, 1, Len(s) \div 2))
         \o Lower(SubSeq(s, Len(s) \div 2 + 1, Len(s)))

\* sub in s
Contains(sub, s) ==
    \E i \in 1..(Len(s) - Len(sub) + 1) : SubSeq(s, i, i + Len(sub) - 1) = sub

\* any(word in text for word in words)
AnyIn(words, text) == \E w \in words : Contains(w, text)

\* str.replace(old, new): every non-overlapping occurrence, left to right
RECURSIVE ReplaceFrom(_, _, _, _)
ReplaceFrom(s, old, new, i) ==
    IF i > Len(s) THEN ""
    ELSE IF i + Len(old) - 1 <= Len(s) /\ SubSeq(s, i, i + Len(old) - 1) = old
         THEN new \o ReplaceFrom(s, old, new, i + Len(old))
         ELSE CharAt(s, i) \o ReplaceFrom(s, old, new, i + 1)

Replace(s, old, new) == ReplaceFrom(s, old, new, 1)

\* type(v).__name__
TypeName(v) ==
    CASE v.kind = "none" -> "NoneType"
      [] v.kind = "int" -> "int"
      [] v.kind = "str" -> "str"

\* str(v) as an f-string interpolates it
Format(v) ==
    CASE v.kind = "none" -> "None"
      [] v.kind = "int" -> ToString(v.n)
      [] v.kind = "str" -> v.s

---------------------------------------------------------------------------
(* The static tables *)

Archetype(t, d, p) == [title |-> t, duration |-> d, priority |-> p]

\* _load_task_templates
LoadTaskTemplates ==
    [ product_launch |-> <<
        Archetype("Market Research and Analysis", 16, "high"),
        Archetype("Define Product Requirements", 12, "high"),
        Archetype("Create Project Timeline", 4, "high"),
        Archetype("Set up Development Environment", 8, "high"),
        Archetype("Design User Interface", 20, "medium"),
        Archetype("Implement Core Features", 40, "high"),
        Archetype("Write Unit Tests", 16, "medium"),
        Archetype("Integration Testing", 12, "medium"),
        Archetype("User Acceptance Testing", 8, "medium"),
        Archetype("Deploy to Production", 8, "high"),
        Archetype("Create Documentation", 12, "low"),
        Archetype("Marketing and Promotion", 16, "medium") >>,
      learning |-> <<
        Archetype("Research Learning Resources", 4, "high"),
        Archetype("Set Learning Goals", 2, "high"),
        Archetype("Create Study Schedule", 2, "high"),
        Archetype("Complete Basic Tutorials", 16, "high"),
        Archetype("Practice with Small Projects", 24, "medium"),
        Archetype("Join Learning Community", 4, "low"),
        Archetype("Build Portfolio Project", 32, "medium"),
        Archetype("Seek Feedback and Mentorship", 8, "medium"),
        Archetype("Advanced Practice", 20, "medium"),
        Archetype("Document Learning Journey", 4, "low") >>,
      event_planning |-> <<
        Archetype("Define Event Objectives", 4, "high"),
        Archetype("Set Budget and Timeline", 4, "high"),
        Archetype("Choose Venue and Date", 8, "high"),
        Archetype("Create Guest List", 4, "medium"),
        Archetype("Send Invitations", 4, "medium"),
        Archetype("Plan Activities and Agenda", 12, "medium"),
        Archetype("Arrange Catering", 6, "medium"),
        Archetype("Set up Equipment and Decorations", 8, "low"),
        Archetype("Coordinate with Vendors", 6, "medium"),
        Archetype("Final Preparations", 4, "high"),
        Archetype("Execute Event", 8, "high"),
        Archetype("Follow-up and Feedback", 4, "low") >>,
      business_startup |-> <<
        Archetype("Market Research and Validation", 20, "high"),
        Archetype("Create Business Plan", 16, "high"),
        Archetype("Register Business Entity", 4, "high"),
        Archetype("Set up Financial Systems", 8, "high"),
        Archetype("Develop MVP (Minimum Viable Product)", 60, "high"),
        Archetype("Build Brand Identity", 12, "medium"),
        Archetype("Create Marketing Strategy", 16, "medium"),
        Archetype("Launch Website", 20, "medium"),
        Archetype("Find First Customers", 24, "high"),
        Archetype("Gather Customer Feedback", 8, "medium"),
        Archetype("Iterate and Improve", 20, "medium"),
        Archetype("Scale Operations", 32, "low") >>,
      mobile_app |-> <<
        Archetype("Define App Requirements", 8, "high"),
        Archetype("Create Wireframes and Mockups", 16, "high"),
        Archetype("Set up Development Environment", 6, "high"),
        Archetype("Implement User Authentication", 12, "high"),
        Archetype("Develop Core Features", 40, "high"),
        Archetype("Integrate APIs and Backend", 20, "medium"),
        Archetype("Implement UI/UX Design", 24, "medium"),
        Archetype("Testing and Bug Fixes", 16, "medium"),
        Archetype("Performance Optimization", 12, "medium"),
        Archetype("Prepare for App Store", 8, "high"),
        Archetype("Submit for Review", 2, "high"),
        Archetype("Launch and Marketing", 16, "medium") >> ]

\* _load_priority_keywords: a dict, iterated in insertion order
LoadPriorityKeywords ==
    << [priority |-> "high",
        keywords |-> {"urgent", "critical", "essential", "immediate", "launch",
                      "deadline", "core", "main", "primary"}],
       [priority |-> "medium",
        keywords |-> {"important", "secondary", "support", "enhancement",
                      "feature", "improvement"}],
       [priority |-> "low",
        keywords |-> {"optional", "nice-to-have", "future", "documentation",
                      "cleanup", "optimization"}] >>

---------------------------------------------------------------------------
(* _analyze_goal_type *)

\* the chain with the product_launch test moved to the front
GoalTypeRulesLaunchFirst ==
    << [words |-> {"launch", "product", "release", "deploy"},
        type |-> "product_launch"],
       [words |-> {"app", "mobile", "ios", "android", "react native"},
        type |-> "mobile_app"],
       [words |-> {"learn", "study", "course", "tutorial", "skill"},
        type |-> "learning"],
       [words |-> {"event", "party", "conference", "meeting", "gathering"},
        type |-> "event_planning"],
       [words |-> {"business", "startup", "company", "entrepreneur"},
        type |-> "business_startup"] >>

\* the chain with "app" missing from the mobile_app words
GoalTypeRulesWithoutApp ==
    << [words |-> {"mobile", "ios", "android", "react native"},
        type |-> "mobile_app"],
       [words |-> {"learn", "study", "course", "tutorial", "skill"},
        type |-> "learning"],
       [words |-> {"event", "party", "conference", "meeting", "gathering"},
        type |-> "event_planning"],
       [words |-> {"business", "startup", "company", "entrepreneur"},
        type |-> "business_startup"],
       [words |-> {"launch", "product", "release", "deploy"},
        type |-> "product_launch"] >>

\* the ordered (keyword set, outcome) checks of the if/elif chain
GoalTypeRules ==
    << [words |-> {"app", "mobile", "ios", "android", "react native"},
        type |-> "mobile_app"],
       [words |-> {"learn", "study", "course", "tutorial", "skill"},
        type |-> "learning"],
       [words |-> {"event", "party", "conference", "meeting", "gathering"},
        type |-> "event_planning"],
       [words |-> {"business", "startup", "company", "entrepreneur"},
        type |-> "business_startup"],
       [words |-> {"launch", "product", "release", "deploy"},
        type |-> "product_launch"] >>

\* the chain from its k-th test on: the first rule with a keyword in the
\* text decides; the else branch
RECURSIVE GoalTypeFrom(_, _)
GoalTypeFrom(text, k) ==
    IF k > Len(GoalTypeRules) THEN "product_launch"
    ELSE IF AnyIn(GoalTypeRules[k].words, text) THEN GoalTypeRules[k].type
    ELSE GoalTypeFrom(text, k + 1)

FirstGoalType(text) == GoalTypeFrom(text, 1)

\* context or ""
OrEmpty(context) == IF Truthy(context) THEN context ELSE PyStr("")

\* goal + " " + (context or ""): str + str, anything else is a TypeError
AnalyzeGoalType(goal, context) ==
    IF ~IsStr(goal)
    THEN Raise("unsupported operand type(s) for +: '" \o TypeName(goal)
               \o "' and 'str'")
    ELSE IF ~IsStr(OrEmpty(context))
    THEN Raise("can only concatenate str (not \"" \o TypeName(context)
               \o "\") to str")
    ELSE Ok(FirstGoalType(Lower(goal.s \o " " \o OrEmpty(context).s)))

---------------------------------------------------------------------------
(* _customize_tasks and its helpers *)

\* the chain tested against goal and context together
CustomizeTaskTitleFromContext(base_title, goal, context) ==
    LET goal_lower == Lower(goal \o " " \o OrEmpty(context).s)
    IN  IF Contains("app", goal_lower) \/ Contains("mobile", goal_lower)
        THEN Replace(base_title, "Product", "App")
        ELSE IF Contains("website", goal_lower) \/ Contains("web", goal_lower)
        THEN Replace(base_title, "Product", "Website")
        ELSE IF Contains("business", goal_lower)
        THEN Replace(base_title, "Product", "Business")
        ELSE base_title

\* _customize_task_title: the first branch of the if/elif chain that matches
\* the lower-cased goal rewrites "Product"
CustomizeTaskTitle(base_title, goal, context) ==
    LET goal_lower == Lower(goal)
    IN  IF Contains("app", goal_lower) \/ Contains("mobile", goal_lower)
        THEN Replace(base_title, "Product", "App")
        ELSE IF Contains("website", goal_lower) \/ Contains("web", goal_lower)
        THEN Replace(base_title, "Product", "Website")
        ELSE IF Contains("business", goal_lower)
        THEN Replace(base_title, "Product", "Business")
        ELSE base_title

\* the descriptions dict of _generate_task_description, in insertion order
Descriptions(goal_lower) ==
    << [key |-> "Market Research",
        desc |-> "Research the target market for " \o goal_lower
                 \o " to understand user needs and competition."],
       [key |-> "Define Requirements",
        desc |-> "Define clear requirements and specifications for "
                 \o goal_lower \o "."],
       [key |-> "Set up Environment",
        desc |-> "Set up the development environment and necessary tools for "
                 \o goal_lower \o "."],
       [key |-> "Design",
        desc |-> "Create designs and mockups for " \o goal_lower
                 \o " focusing on user experience."],
       [key |-> "Implement",
        desc |-> "Implement the core functionality for " \o goal_lower \o "."],
       [key |-> "Testing",
        desc |-> "Test " \o goal_lower
                 \o " thoroughly to ensure quality and functionality."],
       [key |-> "Deploy",
        desc |-> "Deploy " \o goal_lower \o " to production environment."],
       [key |-> "Documentation",
        desc |-> "Create comprehensive documentation for " \o goal_lower \o "."],
       [key |-> "Marketing",
        desc |-> "Develop marketing strategy and materials for "
                 \o goal_lower \o "."] >>

\* for key, desc in descriptions.items(): the first key in the title
RECURSIVE DescriptionFrom(_, _, _, _)
DescriptionFrom(descriptions, title_lower, goal_lower, k) ==
    IF k > Len(descriptions)
    THEN "Complete the " \o title_lower \o " phase for " \o goal_lower \o "."
    ELSE IF Contains(Lower(descriptions[k].key), title_lower)
    THEN descriptions[k].desc
    ELSE DescriptionFrom(descriptions, title_lower, goal_lower, k + 1)

\* the scan keeping the last key found in the title instead of returning
\* at the first
RECURSIVE DescriptionFromLast(_, _, _, _)
DescriptionFromLast(descriptions, title_lower, goal_lower, k) ==
    IF k = 0
    THEN "Complete the " \o title_lower \o " phase for " \o goal_lower \o "."
    ELSE IF Contains(Lower(descriptions[k].key), title_lower)
    THEN descriptions[k].desc
    ELSE DescriptionFromLast(descriptions, title_lower, goal_lower, k - 1)

GenerateTaskDescriptionLastKey(title, goal) ==
    LET goal_lower == Lower(goal)
    IN  DescriptionFromLast(Descriptions(goal_lower), Lower(title), goal_lower,
                            Len(Descriptions(goal_lower)))

\* _generate_task_description
GenerateTaskDescription(title, goal) ==
    LET goal_lower == Lower(goal)
    IN  DescriptionFrom(Descriptions(goal_lower), Lower(title), goal_lower, 1)

\* _determine_priority: the first tier, in the table's order, with a keyword
\* in the text; "medium" when none has.  Reached only with goal a str and
\* context a str or falsy (anything else has raised in _analyze_goal_type).
RECURSIVE PriorityFrom(_, _, _)
PriorityFrom(keywords, text, k) ==
    IF k > Len(keywords) THEN "medium"
    ELSE IF AnyIn(keywords[k].keywords, text) THEN keywords[k].priority
    ELSE PriorityFrom(keywords, text, k + 1)

\* a tier of its own for the keyword "urgent"
DeterminePriorityUrgentTier(keywords, title, goal, context) ==
    LET text == Lower(title \o " " \o goal \o " " \o OrEmpty(context).s)
    IN  IF Contains("urgent", text) THEN "urgent"
        ELSE PriorityFrom(keywords, text, 1)

DeterminePriority(keywords, title, goal, context) ==
    PriorityFrom(keywords,
                 Lower(title \o " " \o goal \o " " \o OrEmpty(context).s), 1)

\* the scaling without its floor of 4 hours
AdjustDurationNoFloor(duration, timeline_weeks, count) ==
    IF ~Truthy(timeline_weeks) THEN Ok(duration)
    ELSE IF IsStr(timeline_weeks)
    THEN Raise("unsupported operand type(s) for /: 'str' and 'int'")
    ELSE LET max_hours == timeline_weeks.n * 40
         IN  IF GtQuotient(duration, max_hours, count)
             THEN Ok(FloorDiv(max_hours, count))
             ELSE Ok(duration)

\* the scaling applied to every task, without the comparison of line 185
AdjustDurationAlwaysScaled(duration, timeline_weeks, count) ==
    IF ~Truthy(timeline_weeks) THEN Ok(duration)
    ELSE IF IsStr(timeline_weeks)
    THEN Raise("unsupported operand type(s) for /: 'str' and 'int'")
    ELSE Ok(Max(4, FloorDiv(timeline_weeks.n * 40, count)))

\* the scaling with a floor of 8 hours
AdjustDurationFloorEight(duration, timeline_weeks, count) ==
    IF ~Truthy(timeline_weeks) THEN Ok(duration)
    ELSE IF IsStr(timeline_weeks)
    THEN Raise("unsupported operand type(s) for /: 'str' and 'int'")
    ELSE LET max_hours == timeline_weeks.n * 40
         IN  IF GtQuotient(duration, max_hours, count)
             THEN Ok(Max(8, FloorDiv(max_hours, count)))
             ELSE Ok(duration)

\* the timeline tested with  is not None  instead of its truth value
AdjustDurationZeroSupplied(duration, timeline_weeks, count) ==
    IF IsNone(timeline_weeks) THEN Ok(duration)
    ELSE IF IsStr(timeline_weeks)
    THEN Raise("unsupported operand type(s) for /: 'str' and 'int'")
    ELSE LET max_hours == timeline_weeks.n * 40
         IN  IF GtQuotient(duration, max_hours, count)
             THEN Ok(Max(4, FloorDiv(max_hours, count)))
             ELSE Ok(duration)

\* lines 181-186: the duration of one task under the timeline.  A falsy
\* timeline (None, 0, "") leaves the baseline; an int scales; a non-empty
\* str makes  max_hours / len(base_tasks)  a TypeError.
AdjustDuration(duration, timeline_weeks, count) ==
    IF ~Truthy(timeline_weeks) THEN Ok(duration)
    ELSE IF IsStr(timeline_weeks)
    THEN Raise("unsupported operand type(s) for /: 'str' and 'int'")
    ELSE LET max_hours == timeline_weeks.n * 40
         IN  IF GtQuotient(duration, max_hours, count)
             THEN Ok(Max(4, FloorDiv(max_hours, count)))
             ELSE Ok(duration)

\* the draft that keeps the archetype's own priority
CustomizedTaskBaselinePriority(keywords, task, i, goal, context, duration) ==
    LET title == CustomizeTaskTitle(task.title, goal, context)
    IN  [ title |-> title,
          description |-> GenerateTaskDescription(title, goal),
          priority |-> task.priority,
          estimated_duration_hours |-> duration,
          dependencies |-> << >>,
          due_date_offset_days |-> i * 2 ]

\* the draft with offsets counted from the first task as 1,
\* enumerate(base_tasks, 1)
CustomizedTaskOffsetFromOne(keywords, task, i, goal, context, duration) ==
    LET title == CustomizeTaskTitle(task.title, goal, context)
    IN  [ title |-> title,
          description |-> GenerateTaskDescription(title, goal),
          priority |-> DeterminePriority(keywords, task.title, goal, context),
          estimated_duration_hours |-> duration,
          dependencies |-> << >>,
          due_date_offset_days |-> (i + 1) * 2 ]

\* the draft with one offset for every two tasks, i // 2
CustomizedTaskOffsetHalved(keywords, task, i, goal, context, duration) ==
    LET title == CustomizeTaskTitle(task.title, goal, context)
    IN  [ title |-> title,
          description |-> GenerateTaskDescription(title, goal),
          priority |-> DeterminePriority(keywords, task.title, goal, context),
          estimated_duration_hours |-> duration,
          dependencies |-> << >>,
          due_date_offset_days |-> i \div 2 ]

\* the dict built for the task at Python index i (lines 191-198)
CustomizedTask(keywords, task, i, goal, context, duration) ==
    LET title == CustomizeTaskTitle(task.title, goal, context)
    IN  [ title |-> title,
          description |-> GenerateTaskDescription(title, goal),
          priority |-> DeterminePriority(keywords, task.title, goal, context),
          estimated_duration_hours |-> duration,
          dependencies |-> << >>,
          due_date_offset_days |-> i * 2 ]

\* the loop stopping one archetype early
CustomizeTasksDropLast(keywords, base_tasks, goal, context, timeline_weeks) ==
    LET dur(k) == AdjustDuration(base_tasks[k].duration, timeline_weeks,
                                 Len(base_tasks))
    IN  IF \E k \in 1..Len(base_tasks) : dur(k).raised
        THEN dur(CHOOSE k \in 1..Len(base_tasks) :
                     dur(k).raised /\ \A m \in 1..(k - 1) : ~dur(m).raised)
        ELSE Ok([k \in 1..(Len(base_tasks) - 1) |->
                    CustomizedTask(keywords, base_tasks[k], k - 1, goal,
                                   context, dur(k).value)])

\* _customize_tasks: one draft per archetype, in order; the first exception
\* of the loop leaves it
CustomizeTasks(keywords, base_tasks, goal, context, timeline_weeks) ==
    LET dur(k) == AdjustDuration(base_tasks[k].duration, timeline_weeks,
                                 Len(base_tasks))
    IN  IF \E k \in 1..Len(base_tasks) : dur(k).raised
        THEN dur(CHOOSE k \in 1..Len(base_tasks) :
                     dur(k).raised /\ \A m \in 1..(k - 1) : ~dur(m).raised)
        ELSE Ok([k \in 1..Len(base_tasks) |->
                    CustomizedTask(keywords, base_tasks[k], k - 1, goal,
                                   context, dur(k).value)])

---------------------------------------------------------------------------
(* _add_dependencies *)

\* range(n) as a list
Range0(n) == [k \in 1..n |-> k - 1]

Elements(list) == {list[k] : k \in 1..Len(list)}

\* list(set(xs)) for small non-negative ints, as CPython iterates a set: by
\* table slot.  Up to 4 distinct elements sit in the initial 8-slot table
\* (slot x & 7, a collision moves to (5 * slot + 1) & 7); the fifth element
\* resizes it to 32 slots, where every index below 32 has its own slot.
RECURSIVE ProbeSlot(_, _)
ProbeSlot(table, slot) ==
    IF table[slot] = -1 THEN slot ELSE ProbeSlot(table, (5 * slot + 1) % 8)

RECURSIVE SetTable(_, _, _)
SetTable(xs, k, table) ==
    IF k > Len(xs) THEN table
    ELSE IF xs[k] \in {table[s] : s \in 0..7} THEN SetTable(xs, k + 1, table)
    ELSE SetTable(xs, k + 1,
                  [table EXCEPT ![ProbeSlot(table, xs[k] % 8)] = xs[k]])

RECURSIVE TableList(_, _, _)
TableList(table, slot, size) ==
    IF slot >= size THEN << >>
    ELSE IF table[slot] = -1 THEN TableList(table, slot + 1, size)
    ELSE <<table[slot]>> \o TableList(table, slot + 1, size)

ListOfSet(xs) ==
    IF Cardinality(Elements(xs)) <= 4
    THEN TableList(SetTable(xs, 1, [s \in 0..7 |-> -1]), 0, 8)
    ELSE TableList([s \in 0..31 |-> IF s \in Elements(xs) THEN s ELSE -1], 0, 32)

\* the chain rule appending i instead of i - 1
DependencyListOffByOne(tasks, i) == IF i > 0 THEN <<i>> ELSE << >>

\* the keyword rules scanning the whole list, enumerate(tasks), instead of
\* the tasks before i
DependencyListScanAll(tasks, i) ==
    LET task_title == Lower(tasks[i + 1].title)
        prevTitle(j) == Lower(tasks[j + 1].title)
        chain == IF i > 0 THEN <<i - 1>> ELSE << >>
    IN  IF Contains("testing", task_title)
        THEN chain \o SelectSeq(Range0(Len(tasks)),
                 LAMBDA j : Contains("implement", prevTitle(j))
                            \/ Contains("develop", prevTitle(j)))
        ELSE IF Contains("deploy", task_title)
        THEN chain \o SelectSeq(Range0(Len(tasks)),
                 LAMBDA j : Contains("test", prevTitle(j)))
        ELSE chain

\* the dependencies list of the task at Python index i, before de-duplication
DependencyList(tasks, i) ==
    LET task_title == Lower(tasks[i + 1].title)
        prevTitle(j) == Lower(tasks[j + 1].title)
        chain == IF i > 0 THEN <<i - 1>> ELSE << >>
    IN  IF Contains("testing", task_title)
        THEN chain \o SelectSeq(Range0(i),
                 LAMBDA j : Contains("implement", prevTitle(j))
                            \/ Contains("develop", prevTitle(j)))
        ELSE IF Contains("deploy", task_title)
        THEN chain \o SelectSeq(Range0(i),
                 LAMBDA j : Contains("test", prevTitle(j)))
        ELSE chain

\* _add_dependencies: titles are not written, so each task's list depends
\* on the titles only
AddDependencies(tasks) ==
    [k \in 1..Len(tasks) |->
        [tasks[k] EXCEPT !.dependencies = ListOfSet(DependencyList(tasks, k - 1))]]

---------------------------------------------------------------------------
(* _generate_reasoning, _get_fallback_tasks, generate_task_breakdown *)

\* " ".join(parts)
RECURSIVE JoinFrom(_, _)
JoinFrom(parts, k) ==
    IF k > Len(parts) THEN ""
    ELSE IF k = Len(parts) THEN parts[k]
    ELSE parts[k] \o " " \o JoinFrom(parts, k + 1)

Join(parts) == JoinFrom(parts, 1)

\* the goal type put into the first sentence as it is
GenerateReasoningTypeVerbatim(goal, goal_type, task_count, timeline_weeks) ==
    Join(<< "Analyzed the goal '" \o goal \o "' and identified it as a "
              \o goal_type \o " project.",
            "Generated " \o ToString(task_count)
              \o " actionable tasks based on best practices for this type of project." >>
         \o (IF Truthy(timeline_weeks)
             THEN << "Adjusted task durations to fit within the "
                       \o Format(timeline_weeks) \o "-week timeline." >>
             ELSE << >>)
         \o << "Tasks are ordered logically with dependencies to ensure smooth progression.",
               "Priority levels are assigned based on importance and dependencies.",
               "Time estimates are realistic and account for potential challenges." >>)

\* _generate_reasoning
GenerateReasoning(goal, goal_type, task_count, timeline_weeks) ==
    Join(<< "Analyzed the goal '" \o goal \o "' and identified it as a "
              \o Replace(goal_type, "_", " ") \o " project.",
            "Generated " \o ToString(task_count)
              \o " actionable tasks based on best practices for this type of project." >>
         \o (IF Truthy(timeline_weeks)
             THEN << "Adjusted task durations to fit within the "
                       \o Format(timeline_weeks) \o "-week timeline." >>
             ELSE << >>)
         \o << "Tasks are ordered logically with dependencies to ensure smooth progression.",
               "Priority levels are assigned based on importance and dependencies.",
               "Time estimates are realistic and account for potential challenges." >>)

Draft(t, d, p, h, deps, off) ==
    [ title |-> t, description |-> d, priority |-> p,
      estimated_duration_hours |-> h, dependencies |-> deps,
      due_date_offset_days |-> off ]

\* the fallback list with every later task waiting for the first one
GetFallbackTasksFanOut(goal) ==
    LET g == Format(goal)
    IN << Draft("Plan and Research " \o g,
                "Research and plan the approach for " \o g,
                "high", 8, << >>, 0),
          Draft("Implement Core Features for " \o g,
                "Implement the main functionality for " \o g,
                "high", 16, <<0>>, 2),
          Draft("Test and Validate " \o g,
                "Test the implementation of " \o g,
                "medium", 8, <<0>>, 4),
          Draft("Deploy and Launch " \o g,
                "Deploy and launch " \o g,
                "high", 4, <<0>>, 6) >>

\* _get_fallback_tasks: goal is interpolated, whatever its type
GetFallbackTasks(goal) ==
    LET g == Format(goal)
    IN << Draft("Plan and Research " \o g,
                "Research and plan the approach for " \o g,
                "high", 8, << >>, 0),
          Draft("Implement Core Features for " \o g,
                "Implement the main functionality for " \o g,
                "high", 16, <<0>>, 2),
          Draft("Test and Validate " \o g,
                "Test the implementation of " \o g,
                "medium", 8, <<1>>, 4),
          Draft("Deploy and Launch " \o g,
                "Deploy and launch " \o g,
                "high", 4, <<2>>, 6) >>

RECURSIVE SumHours(_, _)
SumHours(tasks, k) ==
    IF k > Len(tasks) THEN 0
    ELSE tasks[k].estimated_duration_hours + SumHours(tasks, k + 1)

\* the day estimate without its minimum of one day
EstimatedDaysNoMinimum(tasks) == FloorDiv(SumHours(tasks, 1), 8)

\* lines 136-138
EstimatedDays(tasks) == Max(1, FloorDiv(SumHours(tasks, 1), 8))

Breakdown(reasoning, days, tasks) ==
    [reasoning |-> reasoning, estimated_duration_days |-> days, tasks |-> tasks]

\* self.task_templates.get(goal_type, self.task_templates["product_launch"])
BaseTasks(templates, goal_type) ==
    IF goal_type \in DOMAIN templates THEN templates[goal_type]
    ELSE templates["product_launch"]

\* the try block, lines 121-144: Ok(result) or the exception that left it
TryBreakdown(templates, keywords, goal, timeline_weeks, context) ==
    LET typed == AnalyzeGoalType(goal, context)
    IN  IF typed.raised THEN typed
        ELSE
        LET goal_type == typed.value
            base_tasks == BaseTasks(templates, goal_type)
            customized == CustomizeTasks(keywords, base_tasks, goal.s, context,
                                         timeline_weeks)
        IN  IF customized.raised THEN customized
            ELSE
            LET tasks == AddDependencies(customized.value)
            IN  Ok(Breakdown(GenerateReasoning(goal.s, goal_type, Len(tasks),
                                               timeline_weeks),
                             EstimatedDays(tasks),
                             tasks))

\* the except clause, lines 146-151
FallbackResult(goal, msg) ==
    Breakdown("Generated using local AI logic. Error: " \o msg, 14,
              GetFallbackTasks(goal))

\* a narrower clause,  except ValueError as e:  the TypeErrors of the try
\* block pass through it
ExceptValueError(attempt, goal) == attempt

\* except Exception as e: every exception of the try block is replaced by
\* the fallback result
ExceptException(attempt, goal) ==
    IF attempt.raised THEN Ok(FallbackResult(goal, attempt.msg)) ELSE attempt

---------------------------------------------------------------------------
(* generate_task_suggestions, analyze_task_complexity *)

\* suggestions[:5]
Take(list, n) == SubSeq(list, 1, IF Len(list) < n THEN Len(list) ELSE n)

GenericSuggestions ==
    << "Break down into smaller, more specific subtasks",
       "Add measurable success criteria",
       "Consider potential blockers and mitigation strategies",
       "Set up regular check-ins or milestones",
       "Document lessons learned for future reference" >>

\* the list after the if/elif chain's extend, before the slice
ExtendedSuggestions(current_task) ==
    LET task_lower == Lower(current_task)
    IN  IF Contains("research", task_lower)
        THEN GenericSuggestions
             \o << "Create a research plan with specific questions",
                   "Identify key sources and experts to consult" >>
        ELSE IF Contains("implement", task_lower) \/ Contains("develop", task_lower)
        THEN GenericSuggestions
             \o << "Write unit tests alongside implementation",
                   "Consider code review and pair programming" >>
        ELSE IF Contains("test", task_lower)
        THEN GenericSuggestions
             \o << "Create test cases before testing begins",
                   "Document bugs and their resolutions" >>
        ELSE GenericSuggestions

\* the slice taken from the end of the list, suggestions[-5:]
TaskSuggestionsLastFive(current_task, context) ==
    LET all == ExtendedSuggestions(current_task)
    IN  SubSeq(all, Len(all) - 4, Len(all))

\* generate_task_suggestions
TaskSuggestions(current_task, context) == Take(ExtendedSuggestions(current_task), 5)

Challenges ==
    << "Time estimation accuracy", "Resource availability",
       "Technical complexity", "External dependencies" >>

Analysis(complexity, hours, skills) ==
    [ complexity |-> complexity,
      estimated_hours |-> hours,
      required_skills |-> skills,
      potential_challenges |-> Challenges,
      suggested_approach |->
          "Break down the " \o complexity \o " complexity task into smaller steps"
          \o " and allocate appropriate time for each phase." ]

\* the chain testing the "high" words before the "low" words
TaskComplexityHighFirst(task) ==
    LET task_lower == Lower(task)
    IN  IF AnyIn({"implement", "develop", "build", "create"}, task_lower)
        THEN Analysis("high", 16, <<"Programming", "System design", "Problem solving">>)
        ELSE IF AnyIn({"research", "plan", "setup", "configure"}, task_lower)
        THEN Analysis("low", 4, <<"Research", "Planning", "Basic technical skills">>)
        ELSE IF AnyIn({"test", "validate", "review"}, task_lower)
        THEN Analysis("medium", 8, <<"Testing", "Quality assurance", "Attention to detail">>)
        ELSE Analysis("medium", 8, <<"General project management", "Communication">>)

\* analyze_task_complexity
TaskComplexity(task) ==
    LET task_lower == Lower(task)
    IN  IF AnyIn({"research", "plan", "setup", "configure"}, task_lower)
        THEN Analysis("low", 4, <<"Research", "Planning", "Basic technical skills">>)
        ELSE IF AnyIn({"implement", "develop", "build", "create"}, task_lower)
        THEN Analysis("high", 16, <<"Programming", "System design", "Problem solving">>)
        ELSE IF AnyIn({"test", "validate", "review"}, task_lower)
        THEN Analysis("medium", 8, <<"Testing", "Quality assurance", "Attention to detail">>)
        ELSE Analysis("medium", 8, <<"General project management", "Communication">>)

---------------------------------------------------------------------------
(* What a call leaves in the static tables *)

\* the scaled duration assigned to the archetype dict itself,
\* task["duration"] = max(4, ...)
TemplatesScaledInPlace(templates, keywords, goal, timeline_weeks, context) ==
    LET typed == AnalyzeGoalType(goal, context)
    IN  IF typed.raised THEN templates
        ELSE
        LET type == IF typed.value \in DOMAIN templates THEN typed.value
                    ELSE "product_launch"
            base == templates[type]
            dur(k) == AdjustDuration(base[k].duration, timeline_weeks, Len(base))
        IN  IF \E k \in 1..Len(base) : dur(k).raised THEN templates
            ELSE [templates EXCEPT ![type] =
                     [k \in 1..Len(base) |->
                         [base[k] EXCEPT !.duration = dur(k).value]]]

\* the customized title assigned to the archetype dict itself,
\* task["title"] = title
TemplatesTitledInPlace(templates, keywords, goal, timeline_weeks, context) ==
    LET typed == AnalyzeGoalType(goal, context)
    IN  IF typed.raised THEN templates
        ELSE
        LET type == IF typed.value \in DOMAIN templates THEN typed.value
                    ELSE "product_launch"
            base == templates[type]
        IN  [templates EXCEPT ![type] =
                [k \in 1..Len(base) |->
                    [base[k] EXCEPT !.title =
                        CustomizeTaskTitle(base[k].title, goal.s, context)]]]

\* _customize_tasks builds a new dict per archetype (line 191) and
\* _add_dependencies assigns to those drafts (line 273): no line of the call
\* assigns to self.task_templates or to an archetype dict
TemplatesAfterBreakdown(templates, keywords, goal, timeline_weeks, context) ==
    templates

\* _determine_priority only iterates self.priority_keywords
KeywordsAfterBreakdown(templates, keywords, goal, timeline_weeks, context) ==
    keywords

---------------------------------------------------------------------------
(* The inputs the calls are made with *)

\* the longest timeline tried, in weeks
MaxWeeks == 3

\* the longest task list whose hours are aggregated on their own
MaxPlanLen == 2

DemoGoal == "Launch a mobile app in 3 weeks"
DemoContext == "Solo developer, first mobile app, using React Native"

GoalTexts ==
    { DemoGoal,
      "Launch a mobile app",
      "Learn Python",
      "Plan a birthday party",
      "Start a Business",
      "Release the product",
      "Build a website",
      "Urgent: ship optional extras",
      "Organize important files",
      "Write optional notes",
      "Learn React",
      "Plan a party for ma",
      "Release the product app",
      "" }

\* a str, or a value that is no str
GoalValues == {PyStr(g) : g \in GoalTexts} \cup {PyNone}

\* absent, an integer, or a value that is no number
TimelineValues == {PyNone, PyStr("soon")} \cup {PyInt(w) : w \in -1..MaxWeeks}

ContextValues ==
    { PyNone, PyStr(""), PyStr(DemoContext), PyStr("Native development"),
      PyStr("in the garden"), PyInt(7) }

\* every goal with every timeline and no context, every goal with every
\* context and no timeline, and the demo request of demo.py
BreakdownArgs ==
    {<<g, w, PyNone>> : g \in GoalValues, w \in TimelineValues}
    \cup {<<g, PyNone, c>> : g \in GoalValues, c \in ContextValues}
    \cup {<<PyStr(DemoGoal), PyInt(3), PyStr(DemoContext)>>}

ClassifyArgs == {<<g, c>> : g \in GoalValues, c \in ContextValues}

TaskTitles ==
    { "Market Research and Analysis", "Implement Core Features",
      "Develop MVP (Minimum Viable Product)", "Integration Testing",
      "Write Unit Tests", "Research and implement search",
      "Plan Activities and Agenda", "Review contract",
      "Send Invitations", "" }

SuggestionContexts == {"", "Priority: high, Estimated duration: 8 hours"}

\* task lists given by their hours alone
HourValues == {1, 2, 3, 8, 20, 40}

HourLists == UNION {[1..n -> HourValues] : n \in 0..MaxPlanLen}

HoursOnly(hours) ==
    [k \in 1..Len(hours) |-> Draft("", "", "medium", hours[k], << >>, 0)]

\* the longest draft list whose dependencies are inferred on its own
MaxDrafts == 3

\* titles of drafts: catalog titles, and one title with both "testing" and
\* "deploy"
DraftTitles ==
    { "Implement Core Features", "Write Unit Tests", "Integration Testing",
      "Deploy to Production", "Testing and Deployment" }

TitleLists == UNION {[1..n -> DraftTitles] : n \in 0..MaxDrafts}

TitlesOnly(titles) ==
    [k \in 1..Len(titles) |-> Draft(titles[k], "", "medium", 8, << >>, 0)]

\* arguments of _customize_task_title: an archetype title, a goal, a context
BaseTitles ==
    { "Define Product Requirements", "Deploy to Production",
      "Market Research and Analysis" }

TitleGoals ==
    { "Launch a mobile app", "Go MOBILE", "Build a web app",
      "Build a website", "A business website", "Start a Business",
      "Learn Python" }

TitleContexts == {PyNone, PyStr("a web app for my business")}

TitleArgs ==
    {<<t, g, c>> : t \in BaseTitles, g \in TitleGoals, c \in TitleContexts}

\* the calls repeated against each other
RepeatedCalls ==
    { [op |-> "breakdown", args |-> <<PyStr("Learn Python"), PyNone, PyNone>>],
      [op |-> "breakdown", args |-> <<PyStr("Learn Python"), PyInt(1), PyNone>>],
      [op |-> "breakdown", args |-> <<PyStr("Build a website"), PyNone, PyNone>>],
      [op |-> "breakdown", args |-> <<PyStr("Build a website"), PyStr("soon"), PyNone>>],
      [op |-> "breakdown", args |-> <<PyNone, PyInt(1), PyNone>>],
      [op |-> "suggestions", args |-> <<"Research and implement search", "">>],
      [op |-> "suggestions", args |-> <<"Send Invitations", "">>],
      [op |-> "complexity", args |-> <<"Integration Testing">>],
      [op |-> "complexity", args |-> <<"Send Invitations">>] }

---------------------------------------------------------------------------
(* The engine's operations.  A coroutine of the engine has no await inside, *)
(* so a call runs from its first line to its return without interleaving:  *)
(* concurrent callers see their calls run one after another, in any order. *)

NoCall == [op |-> "none"]

\* a table with no row, as Base.metadata.create_all leaves it
NoRows == [id \in {} |-> NoCall]

NoResponse == [op |-> "none"]

Init ==
    /\ task_templates = LoadTaskTemplates
    /\ priority_keywords = LoadPriorityKeywords
    /\ pending = NoCall
    /\ last = NoCall
    /\ prev = NoCall
    /\ db_goals = NoRows
    /\ db_plans = NoRows
    /\ db_tasks = NoRows
    /\ response = NoResponse
    /\ served = 0

\* a caller makes the call op(args); it no longer holds the result of the
\* call before
Invoke(op, args) ==
    /\ pending.op = "none"
    /\ pending' = [op |-> op, args |-> args]
    /\ last' = NoCall
    /\ UNCHANGED <<task_templates, priority_keywords, prev, store>>

\* the same, by a caller that may keep the result of the call before
InvokeAgain(op, args) ==
    /\ pending.op = "none"
    /\ pending' = [op |-> op, args |-> args]
    /\ last' = NoCall
    /\ prev' \in {prev, last}
    /\ UNCHANGED <<task_templates, priority_keywords, store>>

\* what the caller gets back: error is str(e) of the exception the call
\* caught on the way, outcome the value returned or the exception raised
Returned(error, outcome) ==
    [op |-> pending.op, args |-> pending.args, error |-> error,
     outcome |-> outcome]

ErrorOf(attempt) == IF attempt.raised THEN PyStr(attempt.msg) ELSE PyNone

\* async generate_task_breakdown(goal, timeline_weeks, additional_context)
GenerateTaskBreakdown ==
    /\ pending.op = "breakdown"
    /\ LET goal == pending.args[1]
           timeline_weeks == pending.args[2]
           additional_context == pending.args[3]
           attempt == TryBreakdown(task_templates, priority_keywords, goal,
                                   timeline_weeks, additional_context)
       IN  /\ last' = Returned(ErrorOf(attempt), ExceptException(attempt, goal))
           /\ task_templates' =
                  TemplatesAfterBreakdown(task_templates, priority_keywords,
                                          goal, timeline_weeks, additional_context)
           /\ priority_keywords' =
                  KeywordsAfterBreakdown(task_templates, priority_keywords,
                                         goal, timeline_weeks, additional_context)
    /\ pending' = NoCall
    /\ UNCHANGED <<prev, store>>

\* async generate_task_suggestions(current_task, context)
GenerateTaskSuggestions ==
    /\ pending.op = "suggestions"
    /\ last' = Returned(PyNone,
                        Ok(TaskSuggestions(pending.args[1], pending.args[2])))
    /\ pending' = NoCall
    /\ UNCHANGED <<task_templates, priority_keywords, prev, store>>

\* async analyze_task_complexity(task)
AnalyzeTaskComplexity ==
    /\ pending.op = "complexity"
    /\ last' = Returned(PyNone, Ok(TaskComplexity(pending.args[1])))
    /\ pending' = NoCall
    /\ UNCHANGED <<task_templates, priority_keywords, prev, store>>

\* _analyze_goal_type(goal, context), called on its own
ClassifyGoal ==
    /\ pending.op = "classify"
    /\ LET typed == AnalyzeGoalType(pending.args[1], pending.args[2])
       IN  last' = Returned(ErrorOf(typed), typed)
    /\ pending' = NoCall
    /\ UNCHANGED <<task_templates, priority_keywords, prev, store>>

\* lines 136-138 applied to a task list, on their own
EstimateDuration ==
    /\ pending.op = "estimate"
    /\ last' = Returned(PyNone, Ok(EstimatedDays(HoursOnly(pending.args[1]))))
    /\ pending' = NoCall
    /\ UNCHANGED <<task_templates, priority_keywords, prev, store>>

\* _add_dependencies(tasks), called on its own
InferDependencies ==
    /\ pending.op = "dependencies"
    /\ last' = Returned(PyNone, Ok(AddDependencies(TitlesOnly(pending.args[1]))))
    /\ pending' = NoCall
    /\ UNCHANGED <<task_templates, priority_keywords, prev, store>>

\* _customize_task_title(base_title, goal, context), called on its own
CustomizeTitle ==
    /\ pending.op = "title"
    /\ last' = Returned(PyNone,
                        Ok(CustomizeTaskTitle(pending.args[1], pending.args[2],
                                              pending.args[3])))
    /\ pending' = NoCall
    /\ UNCHANGED <<task_templates, priority_keywords, prev, store>>

CallBreakdown == \E a \in BreakdownArgs : Invoke("breakdown", a)

CallSuggestions ==
    \E t \in TaskTitles, c \in SuggestionContexts : Invoke("suggestions", <<t, c>>)

CallComplexity == \E t \in TaskTitles : Invoke("complexity", <<t>>)

CallClassify == \E a \in ClassifyArgs : Invoke("classify", a)

CallEstimate == \E h \in HourLists : Invoke("estimate", <<h>>)

CallDependencies == \E t \in TitleLists : Invoke("dependencies", <<t>>)

CallTitle == \E a \in TitleArgs : Invoke("title", a)

Next ==
    \/ CallBreakdown
    \/ CallSuggestions
    \/ CallComplexity
    \/ CallClassify
    \/ CallEstimate
    \/ CallDependencies
    \/ CallTitle
    \/ GenerateTaskBreakdown
    \/ GenerateTaskSuggestions
    \/ AnalyzeTaskComplexity
    \/ ClassifyGoal
    \/ EstimateDuration
    \/ InferDependencies
    \/ CustomizeTitle

Spec == Init /\ [][Next]_vars

\* the three public calls, repeated: a caller compares the result of a call
\* with the result of an earlier one
CallAgain == \E c \in RepeatedCalls : InvokeAgain(c.op, c.args)

NextCalls ==
    \/ CallAgain
    \/ GenerateTaskBreakdown
    \/ GenerateTaskSuggestions
    \/ AnalyzeTaskComplexity

SpecCalls == Init /\ [][NextCalls]_vars

---------------------------------------------------------------------------
(* The database tables and the rows the routers write *)

\* the id of a new row: the table's INTEGER PRIMARY KEY is the SQLite
\* rowid, one more than the largest id in the table
RECURSIVE MaxId(_)
MaxId(ids) ==
    IF ids = {} THEN 0
    ELSE LET id == CHOOSE i \in ids : TRUE
         IN  Max(id, MaxId(ids \ {id}))

NextId(table) == MaxId(DOMAIN table) + 1

\* db.add(row); db.commit()
Insert(table, id, row) ==
    [i \in DOMAIN table \cup {id} |-> IF i = id THEN row ELSE table[i]]

\* the rows a commit writes, ids[k] for rows[k]
InsertAll(table, ids, rows) ==
    [i \in DOMAIN table \cup {ids[k] : k \in 1..Len(ids)} |->
        IF \E k \in 1..Len(ids) : ids[k] = i
        THEN rows[CHOOSE k \in 1..Len(ids) : ids[k] = i]
        ELSE table[i]]

\* db.delete(row) for the rows with these ids
Remove(table, ids) == [i \in DOMAIN table \ ids |-> table[i]]

\* request.goal[:50]
Slice50(text) == IF Len(text) > 50 THEN SubSeq(text, 1, 50) ELSE text

\* Goal(...) of generate_task_plan
GoalRow(request) ==
    [ title |-> "Goal: " \o Slice50(request.goal) \o "...",
      description |-> request.additional_context,
      user_input |-> request.goal ]

\* Plan(...) of generate_task_plan
PlanRow(goal_id, request, llm_response) ==
    [ goal_id |-> goal_id,
      title |-> "Plan for: " \o Slice50(request.goal) \o "...",
      description |-> "AI-generated plan with "
                      \o ToString(Len(llm_response.tasks)) \o " tasks",
      estimated_duration_days |-> llm_response.estimated_duration_days ]

\* Task(...) of generate_task_plan: the engine's task under the new plan.
\* due_date is start_date + timedelta(days=offset), kept as the number of
\* days after the request; status is the column default.
TaskRow(plan_id, task_data) ==
    [ plan_id |-> plan_id,
      title |-> task_data.title,
      description |-> PyStr(task_data.description),
      priority |-> task_data.priority,
      status |-> "pending",
      estimated_duration_hours |-> PyInt(task_data.estimated_duration_hours),
      due_date |-> PyInt(task_data.due_date_offset_days),
      dependencies |-> task_data.dependencies ]

\* a List[int] of a request body
PyList(items) == [kind |-> "list", items |-> items]

\* task.dependencies or []
DependenciesOrEmpty(dependencies) ==
    IF dependencies.kind = "list" THEN dependencies.items ELSE << >>

\* Task(...) of add_task_to_plan
NewTaskRow(plan_id, task) ==
    [ plan_id |-> plan_id,
      title |-> task.title,
      description |-> task.description,
      priority |-> task.priority,
      status |-> "pending",
      estimated_duration_hours |-> task.estimated_duration_hours,
      due_date |-> task.due_date,
      dependencies |-> DependenciesOrEmpty(task.dependencies) ]

\* the assignments of update_task
UpdatedTaskRow(row, task_update) ==
    [ row EXCEPT !.title = task_update.title,
                 !.description = task_update.description,
                 !.priority = task_update.priority,
                 !.estimated_duration_hours = task_update.estimated_duration_hours,
                 !.due_date = task_update.due_date,
                 !.dependencies = DependenciesOrEmpty(task_update.dependencies) ]

\* the plans of a goal, the tasks of plans: what the relationships
\* Goal.plans and Plan.tasks load
PlansOf(goal_ids) == {p \in DOMAIN db_plans : db_plans[p].goal_id \in goal_ids}

TasksOf(plan_ids) == {t \in DOMAIN db_tasks : db_tasks[t].plan_id \in plan_ids}

valid_statuses == {"pending", "in_progress", "completed", "cancelled"}

valid_priorities == {"low", "medium", "high", "urgent"}

---------------------------------------------------------------------------
(* The requests made to the routers *)

\* the number of requests the routers answer
MaxRequests == 4

\* the largest goal id a request creates
MaxGoals == 2

\* the largest task id add_task_to_plan creates
MaxTaskId == 11

\* bodies of POST /generate: TaskBreakdownRequest
GenerateRequests ==
    { [goal |-> "Learn Python", timeline_weeks |-> PyNone,
       additional_context |-> PyNone],
      [goal |-> "Build a website", timeline_weeks |-> PyInt(1),
       additional_context |-> PyNone] }

\* the commit of generate_task_plan that raises, if one does: the commit
\* of the goal (line 33), of the plan (line 51), of the tasks (line 75)
CommitFailures == {"none", "goal", "plan", "tasks"}

GoalIds == 1..MaxGoals

PlanIds == 1..MaxGoals

\* ids of tasks in requests
TaskIds == {2}

\* a status and a priority the routers accept, and one of each they do not
StatusesTried == {"completed", "done"}

PrioritiesTried == {"urgent", "critical"}

\* bodies of POST /{plan_id}/tasks: TaskCreate
TaskCreates ==
    { [ title |-> "Write release notes", description |-> PyNone,
        priority |-> "critical", estimated_duration_hours |-> PyInt(2),
        due_date |-> PyNone, dependencies |-> PyNone ] }

\* bodies of PUT /{task_id}: TaskCreate
TaskUpdates ==
    TaskCreates \cup
    { [ title |-> "Review the plan", description |-> PyStr("With the team"),
        priority |-> "medium", estimated_duration_hours |-> PyNone,
        due_date |-> PyNone, dependencies |-> PyList(<<1>>) ] }

---------------------------------------------------------------------------
(* The handlers of the routers.  A handler has no await that suspends it  *)
(* and runs from its first line to its response; a commit may raise, and  *)
(* the except clause then rolls back what was not committed.              *)

\* what generate_task_breakdown returns for the requests: computed once
\* from the tables as loaded
EngineReplies ==
    [ request \in GenerateRequests |->
        ExceptException(
            TryBreakdown(LoadTaskTemplates, LoadPriorityKeywords,
                         PyStr(request.goal), request.timeline_weeks,
                         request.additional_context),
            PyStr(request.goal)).value ]

\* llm_response: what llm_service.generate_task_breakdown returns from the
\* tables as they are
LlmResponse(request) ==
    IF /\ task_templates = LoadTaskTemplates
       /\ priority_keywords = LoadPriorityKeywords
    THEN EngineReplies[request]
    ELSE ExceptException(
             TryBreakdown(task_templates, priority_keywords,
                          PyStr(request.goal), request.timeline_weeks,
                          request.additional_context),
             PyStr(request.goal)).value

\* one more request is answered
Serve ==
    /\ served < MaxRequests
    /\ served' = served + 1

\* the response of a handler: the operation, its arguments, the status code
Responded(op, args, code) == [op |-> op, args |-> args, code |-> code]

\* POST /generate
GenerateTaskPlan(request, failure) ==
    LET goal_id == NextId(db_goals)
        llm_response == LlmResponse(request)
        plan_id == NextId(db_plans)
        first == NextId(db_tasks)
        created_tasks == [k \in 1..Len(llm_response.tasks) |-> first + k - 1]
        engine_ran ==
            /\ task_templates' =
                   TemplatesAfterBreakdown(task_templates, priority_keywords,
                       PyStr(request.goal), request.timeline_weeks,
                       request.additional_context)
            /\ priority_keywords' =
                   KeywordsAfterBreakdown(task_templates, priority_keywords,
                       PyStr(request.goal), request.timeline_weeks,
                       request.additional_context)
    IN  /\ goal_id <= MaxGoals
        /\ Serve
        /\ CASE failure = "goal" ->
                   /\ UNCHANGED <<db_goals, db_plans, db_tasks,
                                  task_templates, priority_keywords>>
                   /\ response' = Responded("generate_task_plan", <<request>>, 500)
             [] failure = "plan" ->
                   /\ db_goals' = Insert(db_goals, goal_id, GoalRow(request))
                   /\ engine_ran
                   /\ UNCHANGED <<db_plans, db_tasks>>
                   /\ response' = Responded("generate_task_plan", <<request>>, 500)
             [] failure = "tasks" ->
                   /\ db_goals' = Insert(db_goals, goal_id, GoalRow(request))
                   /\ engine_ran
                   /\ db_plans' = Insert(db_plans, plan_id,
                                         PlanRow(goal_id, request, llm_response))
                   /\ UNCHANGED db_tasks
                   /\ response' = Responded("generate_task_plan", <<request>>, 500)
             [] failure = "none" ->
                   /\ db_goals' = Insert(db_goals, goal_id, GoalRow(request))
                   /\ engine_ran
                   /\ db_plans' = Insert(db_plans, plan_id,
                                         PlanRow(goal_id, request, llm_response))
                   /\ db_tasks' =
                          InsertAll(db_tasks, created_tasks,
                                    [k \in 1..Len(created_tasks) |->
                                        TaskRow(plan_id, llm_response.tasks[k])])
                   /\ response' =
                          [ op |-> "generate_task_plan", args |-> <<request>>,
                            code |-> 200, goal_id |-> goal_id,
                            plan_id |-> plan_id, tasks |-> created_tasks ]
        /\ UNCHANGED <<pending, last, prev>>

\* a handler of one commit: 404 when the row is missing, 500 and a rollback
\* when the commit raises, else the write and 200
Answered(op, args, found, committed, write) ==
    /\ Serve
    /\ IF ~found
       THEN /\ response' = Responded(op, args, 404)
            /\ UNCHANGED <<db_goals, db_plans, db_tasks>>
       ELSE IF ~committed
       THEN /\ response' = Responded(op, args, 500)
            /\ UNCHANGED <<db_goals, db_plans, db_tasks>>
       ELSE /\ response' = Responded(op, args, 200)
            /\ write
    /\ UNCHANGED <<task_templates, priority_keywords, pending, last, prev>>

\* POST /{plan_id}/tasks
AddTaskToPlan(plan_id, task, committed) ==
    /\ NextId(db_tasks) <= MaxTaskId
    /\ Answered("add_task_to_plan", <<plan_id, task>>,
                plan_id \in DOMAIN db_plans, committed,
                /\ db_tasks' = Insert(db_tasks, NextId(db_tasks),
                                      NewTaskRow(plan_id, task))
                /\ UNCHANGED <<db_goals, db_plans>>)

\* the 400 of update_task_status and update_task_priority
Rejected(op, args) ==
    /\ Serve
    /\ response' = Responded(op, args, 400)
    /\ UNCHANGED <<db_goals, db_plans, db_tasks>>
    /\ UNCHANGED <<task_templates, priority_keywords, pending, last, prev>>

\* PUT /{task_id}/status
UpdateTaskStatus(task_id, status, committed) ==
    IF status \notin valid_statuses
    THEN Rejected("update_task_status", <<task_id, status>>)
    ELSE Answered("update_task_status", <<task_id, status>>,
                  task_id \in DOMAIN db_tasks, committed,
                  /\ db_tasks' = [db_tasks EXCEPT ![task_id].status = status]
                  /\ UNCHANGED <<db_goals, db_plans>>)

\* PUT /{task_id}/priority
UpdateTaskPriority(task_id, priority, committed) ==
    IF priority \notin valid_priorities
    THEN Rejected("update_task_priority", <<task_id, priority>>)
    ELSE Answered("update_task_priority", <<task_id, priority>>,
                  task_id \in DOMAIN db_tasks, committed,
                  /\ db_tasks' = [db_tasks EXCEPT ![task_id].priority = priority]
                  /\ UNCHANGED <<db_goals, db_plans>>)

\* PUT /{task_id}
UpdateTask(task_id, task_update, committed) ==
    Answered("update_task", <<task_id, task_update>>,
             task_id \in DOMAIN db_tasks, committed,
             /\ db_tasks' = [db_tasks EXCEPT
                                ![task_id] = UpdatedTaskRow(@, task_update)]
             /\ UNCHANGED <<db_goals, db_plans>>)

\* DELETE /{task_id} of the tasks router
DeleteTask(task_id, committed) ==
    Answered("delete_task", <<task_id>>,
             task_id \in DOMAIN db_tasks, committed,
             /\ db_tasks' = Remove(db_tasks, {task_id})
             /\ UNCHANGED <<db_goals, db_plans>>)

\* DELETE /{plan_id}: db.delete(plan) cascades to plan.tasks
\* (cascade="all, delete-orphan")
DeletePlan(plan_id, committed) ==
    Answered("delete_plan", <<plan_id>>,
             plan_id \in DOMAIN db_plans, committed,
             /\ db_plans' = Remove(db_plans, {plan_id})
             /\ db_tasks' = Remove(db_tasks, TasksOf({plan_id}))
             /\ UNCHANGED db_goals)

\* delete_goal without the cascade from the plans to their tasks
DeleteGoalPlansOnly(goal_id, committed) ==
    Answered("delete_goal", <<goal_id>>,
             goal_id \in DOMAIN db_goals, committed,
             /\ db_goals' = Remove(db_goals, {goal_id})
             /\ db_plans' = Remove(db_plans, PlansOf({goal_id}))
             /\ UNCHANGED db_tasks)

\* DELETE /{goal_id}: db.delete(goal) cascades to goal.plans and from each
\* plan to its tasks
DeleteGoal(goal_id, committed) ==
    Answered("delete_goal", <<goal_id>>,
             goal_id \in DOMAIN db_goals, committed,
             /\ db_goals' = Remove(db_goals, {goal_id})
             /\ db_plans' = Remove(db_plans, PlansOf({goal_id}))
             /\ db_tasks' = Remove(db_tasks, TasksOf(PlansOf({goal_id}))))

PostGenerate ==
    \E request \in GenerateRequests, failure \in CommitFailures :
        GenerateTaskPlan(request, failure)

PostTask ==
    \E plan_id \in PlanIds, task \in TaskCreates, committed \in BOOLEAN :
        AddTaskToPlan(plan_id, task, committed)

PutStatus ==
    \E task_id \in TaskIds, status \in StatusesTried, committed \in BOOLEAN :
        UpdateTaskStatus(task_id, status, committed)

PutPriority ==
    \E task_id \in TaskIds, priority \in PrioritiesTried, committed \in BOOLEAN :
        UpdateTaskPriority(task_id, priority, committed)

PutTask ==
    \E task_id \in TaskIds, task_update \in TaskUpdates, committed \in BOOLEAN :
        UpdateTask(task_id, task_update, committed)

DeleteTaskById ==
    \E task_id \in TaskIds, committed \in BOOLEAN : DeleteTask(task_id, committed)

DeletePlanById ==
    \E plan_id \in PlanIds, committed \in BOOLEAN : DeletePlan(plan_id, committed)

DeleteGoalById ==
    \E goal_id \in GoalIds, committed \in BOOLEAN : DeleteGoal(goal_id, committed)

NextStore ==
    \/ PostGenerate
    \/ PostTask
    \/ PutStatus
    \/ PutPriority
    \/ PutTask
    \/ DeleteTaskById
    \/ DeletePlanById
    \/ DeleteGoalById

SpecStore == Init /\ [][NextStore]_vars

---------------------------------------------------------------------------
(* Properties of generate_task_breakdown *)

\* the plan returned last by generate_task_breakdown
Plan == last.outcome.value

BreakdownReturned == last.op = "breakdown" /\ ~last.outcome.raised

\* the try block ran to its return statement
NormalPath == BreakdownReturned /\ last.error = PyNone

\* the four fixed tasks of section 4.7, for the goal text g
FixedFallbackTasks(g) ==
    << [ title |-> "Plan and Research " \o g,
         description |-> "Research and plan the approach for " \o g,
         priority |-> "high", estimated_duration_hours |-> 8,
         dependencies |-> << >>, due_date_offset_days |-> 0 ],
       [ title |-> "Implement Core Features for " \o g,
         description |-> "Implement the main functionality for " \o g,
         priority |-> "high", estimated_duration_hours |-> 16,
         dependencies |-> <<0>>, due_date_offset_days |-> 2 ],
       [ title |-> "Test and Validate " \o g,
         description |-> "Test the implementation of " \o g,
         priority |-> "medium", estimated_duration_hours |-> 8,
         dependencies |-> <<1>>, due_date_offset_days |-> 4 ],
       [ title |-> "Deploy and Launch " \o g,
         description |-> "Deploy and launch " \o g,
         priority |-> "high", estimated_duration_hours |-> 4,
         dependencies |-> <<2>>, due_date_offset_days |-> 6 ] >>

\* C1: generate_task_breakdown never raises.  Whatever the goal, the
\* timeline (absent, an integer, no number) and the context, the call
\* returns a result with exactly reasoning, estimated_duration_days and
\* tasks; and when a stage of the pipeline raised, what is returned is the
\* fallback result: 14 days and the four fallback tasks.
C1_NeverRaises ==
    last.op = "breakdown" =>
        /\ ~last.outcome.raised
        /\ DOMAIN Plan = {"reasoning", "estimated_duration_days", "tasks"}
        /\ last.error # PyNone =>
               /\ Plan.estimated_duration_days = 14
               /\ Len(Plan.tasks) = 4
               /\ \A k \in 1..4 :
                      Plan.tasks[k].title
                          = FixedFallbackTasks(Format(last.args[1]))[k].title

\* a call whose customize stage raised on a timeline that is no number, and
\* that returned all the same
C1_Witness ==
    /\ last.op = "breakdown"
    /\ last.args[2] = PyStr("soon")
    /\ last.error = PyStr("unsupported operand type(s) for /: 'str' and 'int'")
    /\ ~last.outcome.raised
    /\ Len(Plan.tasks) = 4

\* C2: a forced internal failure yields exactly the fixed fallback plan: the
\* four tasks in order with their priorities, hours, offsets 0, 2, 4, 6 and
\* dependencies {}, {0}, {1}, {2}, 14 days, and a reasoning string that
\* embeds the message of the caught error; nothing in it depends on
\* anything but the goal text and that message.
C2_FallbackPlan ==
    (last.op = "breakdown" /\ last.error # PyNone) =>
        last.outcome =
            Ok([ reasoning |-> "Generated using local AI logic. Error: "
                               \o last.error.s,
                 estimated_duration_days |-> 14,
                 tasks |-> FixedFallbackTasks(Format(last.args[1])) ])

\* the fallback plan returned for "Learn Python" with the timeline "soon"
C2_Witness ==
    /\ last.op = "breakdown"
    /\ last.args = <<PyStr("Learn Python"), PyStr("soon"), PyNone>>
    /\ last.error # PyNone
    /\ Plan.tasks[4].title = "Deploy and Launch Learn Python"
    /\ Plan.tasks[4].dependencies = <<2>>
    /\ Plan.reasoning = "Generated using local AI logic. Error: "
                        \o "unsupported operand type(s) for /: 'str' and 'int'"

\* C3: acyclicity.  In every plan returned, normal or fallback, every
\* dependency of the task at position i (from 0) is a position j with
\* 0 <= j < i: the first task has none, and no task waits for itself or for
\* a later task.
C3_Acyclic ==
    BreakdownReturned =>
        \A p \in 1..Len(Plan.tasks) :
            \A k \in 1..Len(Plan.tasks[p].dependencies) :
                /\ Plan.tasks[p].dependencies[k] >= 0
                /\ Plan.tasks[p].dependencies[k] < p - 1

\* a normal plan in which the keyword rules added dependencies to the chain:
\* "Deploy to Production" at position 9 waits for 6, 7 and 8
C3_Witness ==
    /\ NormalPath
    /\ Len(Plan.tasks) = 12
    /\ Plan.tasks[10].title = "Deploy to Production"
    /\ Elements(Plan.tasks[10].dependencies) = {6, 7, 8}

---------------------------------------------------------------------------
(* Classification, priority, durations, order *)

\* the keyword sets of section 4.1 in their fixed order, and their outcomes
KeywordSets ==
    << {"app", "mobile", "ios", "android", "react native"},
       {"learn", "study", "course", "tutorial", "skill"},
       {"event", "party", "conference", "meeting", "gathering"},
       {"business", "startup", "company", "entrepreneur"},
       {"launch", "product", "release", "deploy"} >>

SetOutcomes ==
    << "mobile_app", "learning", "event_planning", "business_startup",
       "product_launch" >>

SetMatches(k, text) == \E w \in KeywordSets[k] : Contains(w, text)

NoSetMatches(text) == \A k \in 1..Len(KeywordSets) : ~SetMatches(k, text)

\* the outcome of the first set with a keyword in the text; product_launch
\* when there is none
FirstMatch(text) ==
    IF NoSetMatches(text) THEN "product_launch"
    ELSE SetOutcomes[CHOOSE k \in 1..Len(KeywordSets) :
                         /\ SetMatches(k, text)
                         /\ \A m \in 1..(k - 1) : ~SetMatches(m, text)]

\* a context that is a text, or absent
TextOrAbsent(c) == IsStr(c) \/ IsNone(c)

TextOf(c) == IF IsStr(c) THEN c.s ELSE ""

\* goal and context of a call that classifies texts
ClassifiesTexts(op) ==
    /\ last.op = op
    /\ IsStr(last.args[1])
    /\ TextOrAbsent(last.args[IF op = "classify" THEN 2 ELSE 3])

\* the text classify works on: goal, one space, context
SpacedText == Lower(last.args[1].s \o " "
                    \o TextOf(last.args[IF last.op = "classify" THEN 2 ELSE 3]))

\* the text of the claim as written: goal and context with nothing between
JoinedText == Lower(last.args[1].s
                    \o TextOf(last.args[IF last.op = "classify" THEN 2 ELSE 3]))

\* a timeline the request model accepts: absent or an integer
TimelineAccepted == IsNone(last.args[2]) \/ IsInt(last.args[2])

\* C4 as written: classify lower-cases the concatenation of goalText and
\* contextText and returns the outcome of the first keyword set, in the
\* fixed order, with a keyword in that text; product_launch when none has.
C4_Original ==
    ClassifiesTexts("classify") => last.outcome = Ok(FirstMatch(JoinedText))

\* C4, amended: classify lower-cases goalText, one space and contextText
\* (empty if absent) joined in that order, and returns the outcome of the
\* first keyword set, in the fixed order mobile_app, learning,
\* event_planning, business_startup, product_launch, with a keyword that is
\* a substring of that text; a text matching no set yields product_launch
\* without any error, and generate_task_breakdown then returns the normal
\* 12-task product_launch plan, not the fallback.
C4_Classify ==
    /\ ClassifiesTexts("classify") => last.outcome = Ok(FirstMatch(SpacedText))
    /\ (ClassifiesTexts("breakdown") /\ TimelineAccepted /\ NoSetMatches(SpacedText)) =>
           /\ NormalPath
           /\ Len(Plan.tasks) = Len(LoadTaskTemplates.product_launch)
           /\ Contains("identified it as a product launch project.", Plan.reasoning)

\* "Launch a mobile app" has keywords of the first and of the last set, and
\* is classified mobile_app
C4_Witness ==
    /\ last.op = "classify"
    /\ last.args = <<PyStr("Launch a mobile app"), PyStr("")>>
    /\ SetMatches(1, SpacedText) /\ SetMatches(5, SpacedText)
    /\ last.outcome = Ok("mobile_app")

\* the catalog of the goal type the call's texts are classified as
Catalog == LoadTaskTemplates[FirstMatch(SpacedText)]

\* the tier of section 4.3: high, medium, low in that order, the first with
\* a keyword in the text; medium when none has
TierKeywords(tier) ==
    CASE tier = "high" -> {"urgent", "critical", "essential", "immediate",
                           "launch", "deadline", "core", "main", "primary"}
      [] tier = "medium" -> {"important", "secondary", "support",
                             "enhancement", "feature", "improvement"}
      [] tier = "low" -> {"optional", "nice-to-have", "future",
                          "documentation", "cleanup", "optimization"}

TierHits(tier, text) == \E w \in TierKeywords(tier) : Contains(w, text)

KeywordPriority(text) ==
    IF TierHits("high", text) THEN "high"
    ELSE IF TierHits("medium", text) THEN "medium"
    ELSE IF TierHits("low", text) THEN "low"
    ELSE "medium"

ContextText == TextOf(last.args[3])

\* C5 as written: the priority of each task is the first tier, in the order
\* high, medium, low, with a keyword in the lower-cased concatenation of
\* title, goal and context; medium when no tier hits.
C5_Original ==
    (NormalPath /\ ClassifiesTexts("breakdown")) =>
        \A p \in 1..Len(Plan.tasks) :
            Plan.tasks[p].priority
                = KeywordPriority(Lower(Catalog[p].title \o last.args[1].s
                                        \o ContextText))

\* C5, amended: the priority of each task is determined only by keywords:
\* the first tier, in the order high, medium, low, with a keyword that is a
\* substring of the lower-cased text made of the archetype's title, one
\* space, the goal, one space and the context; medium when no tier hits.
\* The archetype's baseline priority is never consulted.
C5_Priority ==
    (NormalPath /\ ClassifiesTexts("breakdown")) =>
        \A p \in 1..Len(Plan.tasks) :
            Plan.tasks[p].priority
                = KeywordPriority(Lower(Catalog[p].title \o " "
                                        \o last.args[1].s \o " " \o ContextText))

\* "Create Documentation", baseline low and with the low keyword
\* "documentation" in its title, is high under a goal that says "urgent"
C5_Witness ==
    /\ NormalPath
    /\ last.args[1] = PyStr("Urgent: ship optional extras")
    /\ Catalog[11].title = "Create Documentation"
    /\ Catalog[11].priority = "low"
    /\ Plan.tasks[11].priority = "high"

\* the timeline rule applies to the archetype at position p: its baseline
\* exceeds timelineWeeks * 40 / archetypeCount
Clamped(p) == Catalog[p].duration * Len(Catalog) > last.args[2].n * 40

PositiveTimeline == IsInt(last.args[2]) /\ last.args[2].n >= 1

\* C6: duration floor under clamping.  For every positive integer
\* timelineWeeks and every catalog, every task whose duration was clamped
\* by the timeline rule has at least 4 hours.
C6_DurationFloor ==
    (NormalPath /\ ClassifiesTexts("breakdown") /\ PositiveTimeline) =>
        \A p \in 1..Len(Plan.tasks) :
            Clamped(p) => Plan.tasks[p].estimated_duration_hours >= 4

\* timelineWeeks = 1 and a catalog of 12: the quotient is 3, and a clamped
\* 8-hour task has 4 hours
C6_Witness ==
    /\ NormalPath /\ ClassifiesTexts("breakdown")
    /\ last.args[2] = PyInt(1)
    /\ Len(Catalog) = 12
    /\ \E p \in 1..Len(Plan.tasks) :
           /\ Clamped(p)
           /\ Catalog[p].duration = 8
           /\ Plan.tasks[p].estimated_duration_hours = 4

RECURSIVE HoursUpTo(_, _)
HoursUpTo(hours, n) ==
    IF n = 0 THEN 0 ELSE HoursUpTo(hours, n - 1) + hours[n]

\* S, the hours of the returned tasks summed
PlanHours ==
    HoursUpTo([p \in 1..Len(Plan.tasks) |-> Plan.tasks[p].estimated_duration_hours],
              Len(Plan.tasks))

\* days = max(1, floor(S / 8))
IsDayEstimate(days, S) ==
    /\ days >= 1
    /\ S >= 8 => (8 * days <= S /\ S < 8 * (days + 1))
    /\ S < 8 => days = 1

\* C7: on the normal path estimated_duration_days is max(1, floor(S / 8))
\* for S the sum of the returned tasks' hours, a positive integer; and the
\* aggregation gives 5 for a task list of 40 hours, 1 for one of 3 hours.
C7_DayEstimate ==
    /\ NormalPath => IsDayEstimate(Plan.estimated_duration_days, PlanHours)
    /\ last.op = "estimate" =>
           LET S == HoursUpTo(last.args[1], Len(last.args[1]))
           IN  /\ IsDayEstimate(last.outcome.value, S)
               /\ S = 40 => last.outcome.value = 5
               /\ S = 3 => last.outcome.value = 1

\* a normal plan of 40 hours, estimated at 5 days
C7_Witness ==
    /\ NormalPath
    /\ PlanHours = 40
    /\ Plan.estimated_duration_days = 5

\* the title of an archetype, as it is or with "Product" rewritten
TitlesFrom(title) ==
    {Replace(title, "Product", r) : r \in {"Product", "App", "Website", "Business"}}

\* C8: on the normal path the returned tasks correspond one to one and in
\* catalog order with the archetypes of the classified goal type: as many
\* tasks as archetypes, the task at each position carrying the title of
\* the archetype at that position; the demo request is classified
\* mobile_app and yields exactly 12 tasks.
C8_CatalogOrder ==
    /\ (NormalPath /\ ClassifiesTexts("breakdown")) =>
           /\ Len(Plan.tasks) = Len(Catalog)
           /\ \A p \in 1..Len(Plan.tasks) :
                  Plan.tasks[p].title \in TitlesFrom(Catalog[p].title)
    /\ (last.op = "breakdown"
        /\ last.args = <<PyStr(DemoGoal), PyInt(3), PyStr(DemoContext)>>) =>
           /\ NormalPath
           /\ Len(Plan.tasks) = 12
           /\ Contains("identified it as a mobile app project.", Plan.reasoning)

\* the demo request, returned with the 12 mobile_app tasks in order
C8_Witness ==
    /\ NormalPath
    /\ last.args = <<PyStr(DemoGoal), PyInt(3), PyStr(DemoContext)>>
    /\ Len(Plan.tasks) = 12
    /\ Plan.tasks[1].title = "Define App Requirements"
    /\ Plan.tasks[12].title = "Launch and Marketing"

---------------------------------------------------------------------------
(* Suggestions; calls repeated *)

FiveGeneric ==
    << "Break down into smaller, more specific subtasks",
       "Add measurable success criteria",
       "Consider potential blockers and mitigation strategies",
       "Set up regular check-ins or milestones",
       "Document lessons learned for future reference" >>

\* C9: suggest returns exactly 5 entries for every title and context, the
\* 5 generic suggestions in their fixed order, whether or not the title
\* contains "research", "implement", "develop" or "test".
C9_FiveGeneric ==
    last.op = "suggestions" =>
        /\ ~last.outcome.raised
        /\ Len(last.outcome.value) = 5
        /\ last.outcome.value = FiveGeneric

\* a title with "research" and "implement" in it, answered with the five
\* generic suggestions
C9_Witness ==
    /\ last.op = "suggestions"
    /\ Contains("research", Lower(last.args[1]))
    /\ Len(ExtendedSuggestions(last.args[1])) = 7
    /\ last.outcome.value = FiveGeneric

---------------------------------------------------------------------------
(* The static tables; the priorities produced *)

\* C11: the static tables are unchanged by any sequence of engine calls:
\* task_templates, with every archetype's title, duration and priority, and
\* priority_keywords are what the constructor loaded; customization and
\* dependency inference write to the drafts of the call only.
C11_TablesUnchanged ==
    /\ task_templates = LoadTaskTemplates
    /\ priority_keywords = LoadPriorityKeywords

\* a call that rewrote a title, scaled a duration and filled a dependency
\* list in its drafts has returned, and the archetype still has its own
\* title and duration
C11_Witness ==
    /\ NormalPath /\ ClassifiesTexts("breakdown")
    /\ last.args[1] = PyStr("Build a website")
    /\ last.args[2] = PyInt(1)
    /\ Plan.tasks[2].title = "Define Website Requirements"
    /\ Plan.tasks[2].estimated_duration_hours = 4
    /\ Plan.tasks[2].dependencies = <<0>>
    /\ task_templates.product_launch[2]
         = [title |-> "Define Product Requirements", duration |-> 12,
            priority |-> "high"]

Priorities == {"low", "medium", "high"}

\* C12: "urgent" is never produced.  For every goal, context and timeline,
\* every task of the result of generate_task_breakdown, normal or fallback,
\* has a priority among low, medium and high.
C12_NoUrgent ==
    BreakdownReturned =>
        \A p \in 1..Len(Plan.tasks) : Plan.tasks[p].priority \in Priorities

\* a goal that says "urgent", planned on the normal path with every task
\* high
C12_Witness ==
    /\ NormalPath
    /\ Contains("urgent", Lower(last.args[1].s))
    /\ \A p \in 1..Len(Plan.tasks) : Plan.tasks[p].priority = "high"

---------------------------------------------------------------------------
(* Dependency inference *)

\* dependencies were inferred: by the call on its own, or in a normal plan
DepsInferred == last.op = "dependencies" \/ NormalPath

InferredTasks == IF last.op = "dependencies" THEN last.outcome.value ELSE Plan.tasks

\* the lower-cased title of the draft at index i (from 0) contains w
HasWord(w, i) == Contains(w, Lower(InferredTasks[i + 1].title))

ChainRule(i) == IF i > 0 THEN {i - 1} ELSE {}

TestingRule(i) ==
    IF HasWord("testing", i)
    THEN {j \in 0..(i - 1) : HasWord("implement", j) \/ HasWord("develop", j)}
    ELSE {}

DeployRule(i) ==
    IF HasWord("deploy", i) THEN {j \in 0..(i - 1) : HasWord("test", j)} ELSE {}

NoIndexTwice(deps) == Cardinality(Elements(deps)) = Len(deps)

---------------------------------------------------------------------------
(* The duration rule and the timeline budget *)

Hours(p) == Plan.tasks[p].estimated_duration_hours

NoTimeline == IsNone(last.args[2])

\* C14: the duration rule.  With timelineWeeks supplied (a positive
\* integer) and maxHours = timelineWeeks * 40, the duration of a task is
\* max(4, floor(maxHours / archetypeCount)) if its baseline exceeds the
\* exact quotient maxHours / archetypeCount and the baseline otherwise;
\* with no timelineWeeks it is the baseline.  Every task is compared with
\* the same quotient, whatever the tasks before it were given.
C14_DurationRule ==
    (NormalPath /\ ClassifiesTexts("breakdown")) =>
        /\ NoTimeline =>
               \A p \in 1..Len(Plan.tasks) : Hours(p) = Catalog[p].duration
        /\ PositiveTimeline =>
               \A p \in 1..Len(Plan.tasks) :
                   Hours(p) = IF Clamped(p)
                              THEN Max(4, FloorDiv(last.args[2].n * 40,
                                                   Len(Catalog)))
                              ELSE Catalog[p].duration

\* three weeks and the 12 mobile_app archetypes, quotient 10: the 40-hour
\* task has 10 hours and a 6-hour task keeps its 6
C14_Witness ==
    /\ NormalPath /\ ClassifiesTexts("breakdown")
    /\ last.args[2] = PyInt(3)
    /\ Len(Catalog) = 12
    /\ \E p \in 1..Len(Plan.tasks) :
           Clamped(p) /\ Catalog[p].duration = 40 /\ Hours(p) = 10
    /\ \E p \in 1..Len(Plan.tasks) :
           ~Clamped(p) /\ Catalog[p].duration = 6 /\ Hours(p) = 6

\* C15: when timelineWeeks is given (a positive integer), the durations are
\* adjusted to fit within the timeline, as the reasoning of the result
\* says: the hours of the returned tasks sum to no more than
\* timelineWeeks * 40.
C15_FitsTimeline ==
    (BreakdownReturned /\ PositiveTimeline) =>
        PlanHours <= last.args[2].n * 40

---------------------------------------------------------------------------
(* Titles, descriptions, offsets *)

\* the substitution rules of section 4.3 in their order
TitleRules ==
    << [words |-> {"app", "mobile"}, by |-> "App"],
       [words |-> {"website", "web"}, by |-> "Website"],
       [words |-> {"business"}, by |-> "Business"] >>

RuleMatches(k, goal_lower) == \E w \in TitleRules[k].words : Contains(w, goal_lower)

\* the archetype title under the first rule that matches the goal
Substituted(title, goal) ==
    LET goal_lower == Lower(goal)
        hits == {k \in 1..Len(TitleRules) : RuleMatches(k, goal_lower)}
    IN  IF hits = {} THEN title
        ELSE Replace(title, "Product",
                     TitleRules[CHOOSE k \in hits : \A m \in hits : k <= m].by)

\* C16: title substitution uses the lower-cased goal only, not the context,
\* and only the first rule that matches: "app" or "mobile" puts "App" for
\* "Product" in the archetype title, else "website" or "web" puts
\* "Website", else "business" puts "Business", else the title is unchanged.
C16_TitleSubstitution ==
    /\ last.op = "title" =>
           last.outcome = Ok(Substituted(last.args[1], last.args[2]))
    /\ (NormalPath /\ ClassifiesTexts("breakdown")) =>
           \A p \in 1..Len(Plan.tasks) :
               Plan.tasks[p].title = Substituted(Catalog[p].title, last.args[1].s)

\* a goal with "business" and "web" and a context with "app": the title
\* gets "Website"
C16_Witness ==
    /\ last.op = "title"
    /\ last.args = << "Define Product Requirements", "A business website",
                      PyStr("a web app for my business") >>
    /\ last.outcome = Ok("Define Website Requirements")

\* the keys of section 4.3 in their fixed order
DescriptionKeys ==
    << "Market Research", "Define Requirements", "Set up Environment",
       "Design", "Implement", "Testing", "Deploy", "Documentation",
       "Marketing" >>

KeyIn(k, title) == Contains(Lower(DescriptionKeys[k]), Lower(title))

\* the template of the key at position k, with the text put in
TemplateOf(k, text) ==
    LET entry == Descriptions(text)[k]
    IN  IF entry.key = DescriptionKeys[k] THEN entry.desc ELSE ""

\* the description of section 4.3 for a customized title and a goal
Described(title, goal) ==
    LET hits == {k \in 1..Len(DescriptionKeys) : KeyIn(k, title)}
    IN  IF hits = {}
        THEN "Complete the " \o Lower(title) \o " phase for " \o Lower(goal) \o "."
        ELSE TemplateOf(CHOOSE k \in hits : \A m \in hits : k <= m, Lower(goal))

\* C17: the description of a task is the template of the first key, in the
\* fixed order Market Research, Define Requirements, Set up Environment,
\* Design, Implement, Testing, Deploy, Documentation, Marketing, whose
\* lower-cased form is a contiguous substring of the lower-cased customized
\* title, with the lower-cased goal put in; with no such key it is
\* "Complete the {lower-cased title} phase for {lower-cased goal}.".
C17_Description ==
    (NormalPath /\ ClassifiesTexts("breakdown")) =>
        \A p \in 1..Len(Plan.tasks) :
            /\ Plan.tasks[p].description
                   = Described(Plan.tasks[p].title, last.args[1].s)
            /\ Plan.tasks[p].description # ""

\* "Implement UI/UX Design" has the keys Design and Implement and takes the
\* template of Design, the earlier; "Create Project Timeline" has none
C17_Witness ==
    /\ NormalPath
    /\ last.args[1] = PyStr("Launch a mobile app")
    /\ \E p \in 1..Len(Plan.tasks) :
           /\ Plan.tasks[p].title = "Implement UI/UX Design"
           /\ KeyIn(4, Plan.tasks[p].title) /\ KeyIn(5, Plan.tasks[p].title)
           /\ Plan.tasks[p].description
                = "Create designs and mockups for launch a mobile app focusing on user experience."
    /\ \E p \in 1..Len(Plan.tasks) :
           Plan.tasks[p].description
               = "Complete the " \o Lower(Plan.tasks[p].title)
                 \o " phase for launch a mobile app."

\* C18: the due_date_offset_days of the task at position i (from 0) of a
\* normal plan is i * 2, for every goal type and timeline, whatever the
\* duration or priority of the task.
C18_Offsets ==
    NormalPath =>
        \A p \in 1..Len(Plan.tasks) :
            Plan.tasks[p].due_date_offset_days = (p - 1) * 2

\* a plan of 12 tasks under a one-week timeline: durations are clamped to
\* 4 hours, priorities differ, and the last offset is 22
C18_Witness ==
    /\ NormalPath
    /\ last.args[2] = PyInt(1)
    /\ Len(Plan.tasks) = 12
    /\ Plan.tasks[12].due_date_offset_days = 22
    /\ Plan.tasks[12].estimated_duration_hours = 4
    /\ \E p, q \in 1..Len(Plan.tasks) :
           Plan.tasks[p].priority # Plan.tasks[q].priority

---------------------------------------------------------------------------
(* Reasoning; task complexity *)

\* the goal type with its underscores replaced by spaces
SpacedType(type) ==
    CASE type = "mobile_app" -> "mobile app"
      [] type = "learning" -> "learning"
      [] type = "event_planning" -> "event planning"
      [] type = "business_startup" -> "business startup"
      [] type = "product_launch" -> "product launch"

AnalyzedSentence(goal, type) ==
    "Analyzed the goal '" \o goal \o "' and identified it as a "
    \o SpacedType(type) \o " project."

GeneratedSentence(n) ==
    "Generated " \o ToString(n)
    \o " actionable tasks based on best practices for this type of project."

TimelineSentence(weeks) ==
    "Adjusted task durations to fit within the " \o ToString(weeks)
    \o "-week timeline."

Boilerplate ==
    "Tasks are ordered logically with dependencies to ensure smooth progression."
    \o " Priority levels are assigned based on importance and dependencies."
    \o " Time estimates are realistic and account for potential challenges."

StartsWith(text, head) ==
    Len(text) >= Len(head) /\ SubSeq(text, 1, Len(head)) = head

\* C19: the reasoning of a normal result is, joined by single spaces: the
\* sentence "Analyzed the goal '{goal}' and identified it as a {goal type,
\* underscores replaced by spaces} project.", the sentence "Generated {N}
\* actionable tasks ..." with N the number of tasks returned, the sentence
\* "Adjusted task durations to fit within the {timelineWeeks}-week
\* timeline." if and only if timelineWeeks (a positive integer) was given,
\* and the three boilerplate sentences; for the goal "Launch a mobile app
\* in 3 weeks" it begins with "Analyzed the goal 'Launch a mobile app in 3
\* weeks' and identified it as a mobile app project.".
C19_Reasoning ==
    /\ (NormalPath /\ ClassifiesTexts("breakdown")) =>
           LET head == AnalyzedSentence(last.args[1].s, FirstMatch(SpacedText))
                       \o " " \o GeneratedSentence(Len(Plan.tasks))
           IN  /\ NoTimeline =>
                      Plan.reasoning = head \o " " \o Boilerplate
               /\ PositiveTimeline =>
                      Plan.reasoning
                          = head \o " " \o TimelineSentence(last.args[2].n)
                            \o " " \o Boilerplate
    /\ (BreakdownReturned /\ last.args[1] = PyStr(DemoGoal)
        /\ TextOrAbsent(last.args[3]) /\ TimelineAccepted) =>
           StartsWith(Plan.reasoning,
                      "Analyzed the goal 'Launch a mobile app in 3 weeks' and identified it as a mobile app project.")

\* the demo request: 12 tasks, the timeline sentence for 3 weeks
C19_Witness ==
    /\ NormalPath
    /\ last.args = <<PyStr(DemoGoal), PyInt(3), PyStr(DemoContext)>>
    /\ Contains("as a mobile app project. Generated 12 actionable tasks",
                Plan.reasoning)
    /\ Contains("Adjusted task durations to fit within the 3-week timeline. Tasks are",
                Plan.reasoning)

\* the ordered keyword check of section 4.8
ComplexityTiers ==
    << [words |-> {"research", "plan", "setup", "configure"},
        complexity |-> "low", hours |-> 4],
       [words |-> {"implement", "develop", "build", "create"},
        complexity |-> "high", hours |-> 16],
       [words |-> {"test", "validate", "review"},
        complexity |-> "medium", hours |-> 8] >>

TierMatches(k, title_lower) ==
    \E w \in ComplexityTiers[k].words : Contains(w, title_lower)

FirstTier(title_lower) ==
    LET hits == {k \in 1..Len(ComplexityTiers) : TierMatches(k, title_lower)}
    IN  IF hits = {} THEN 0 ELSE CHOOSE k \in hits : \A m \in hits : k <= m

\* C20: analyze decides by an ordered keyword check on the lower-cased
\* title, the first match winning: research, plan, setup or configure give
\* low and 4 hours; else implement, develop, build or create give high and
\* 16 hours; else test, validate or review give medium and 8 hours; else
\* medium and 8 hours with the general skills list.  Every result has the
\* same 4 potential challenges, and its suggested approach names the
\* complexity chosen.
C20_Complexity ==
    last.op = "complexity" =>
        LET k == FirstTier(Lower(last.args[1]))
            result == last.outcome.value
        IN  /\ ~last.outcome.raised
            /\ k > 0 => /\ result.complexity = ComplexityTiers[k].complexity
                        /\ result.estimated_hours = ComplexityTiers[k].hours
            /\ k = 0 => /\ result.complexity = "medium"
                        /\ result.estimated_hours = 8
                        /\ result.required_skills
                             = <<"General project management", "Communication">>
            /\ result.potential_challenges
                 = << "Time estimation accuracy", "Resource availability",
                      "Technical complexity", "External dependencies" >>
            /\ Contains("the " \o result.complexity \o " complexity task",
                        result.suggested_approach)

\* a title with "research" and "implement": low and 4 hours, the first
\* match
C20_Witness ==
    /\ last.op = "complexity"
    /\ last.args[1] = "Research and implement search"
    /\ TierMatches(1, Lower(last.args[1])) /\ TierMatches(2, Lower(last.args[1]))
    /\ last.outcome.value.complexity = "low"
    /\ last.outcome.value.estimated_hours = 4

---------------------------------------------------------------------------
(* Titles in the plans returned; durations and offsets under a timeline *)

GoalLower == Lower(last.args[1].s)

AppRuleFires == Contains("app", GoalLower) \/ Contains("mobile", GoalLower)

\* C23: in any plan returned by generate_task_breakdown the rule that puts
\* "App" for "Product" never changes a title: whenever the goal contains
\* "app" or "mobile" the goal is classified mobile_app, no mobile_app
\* archetype title contains "Product", and every returned title equals its
\* mobile_app catalog title.
C23_AppRuleIdle ==
    (NormalPath /\ ClassifiesTexts("breakdown") /\ AppRuleFires) =>
        /\ Contains("identified it as a mobile app project.", Plan.reasoning)
        /\ Len(Plan.tasks) = Len(LoadTaskTemplates.mobile_app)
        /\ \A p \in 1..Len(Plan.tasks) :
               /\ Plan.tasks[p].title = LoadTaskTemplates.mobile_app[p].title
               /\ ~Contains("Product", LoadTaskTemplates.mobile_app[p].title)

\* a goal with "app" and with "product": planned from the mobile_app
\* catalog, its first title "Define App Requirements" as the catalog has it
C23_Witness ==
    /\ NormalPath
    /\ last.args[1] = PyStr("Release the product app")
    /\ AppRuleFires
    /\ Plan.tasks[1].title = "Define App Requirements"
    /\ LoadTaskTemplates.mobile_app[1].title = "Define App Requirements"

\* the words of a title: its maximal runs without a space
RECURSIVE WordsFrom(_, _, _)
WordsFrom(s, k, word) ==
    IF k > Len(s) THEN (IF word = "" THEN << >> ELSE <<word>>)
    ELSE IF CharAt(s, k) = " "
    THEN (IF word = "" THEN << >> ELSE <<word>>) \o WordsFrom(s, k + 1, "")
    ELSE WordsFrom(s, k + 1, word \o CharAt(s, k))

Words(s) == WordsFrom(s, 1, "")

\* the word is "Product", alone or with punctuation around it
StandaloneProduct(word) == word \in {"Product", "(Product", "Product)", "(Product)"}

\* C24: title customization changes only the standalone word "Product" of
\* an archetype title: for every goal and catalog every other word of the
\* title is preserved, and the archetype "Deploy to Production" keeps the
\* title "Deploy to Production" in every produced plan.
C24_OnlyProductWord ==
    (NormalPath /\ ClassifiesTexts("breakdown")) =>
        \A p \in 1..Len(Plan.tasks) :
            LET was == Words(Catalog[p].title)
                is == Words(Plan.tasks[p].title)
            IN  /\ Len(is) = Len(was)
                /\ \A k \in 1..Len(was) :
                       is[k] # was[k] => StandaloneProduct(was[k])
                /\ Catalog[p].title = "Deploy to Production" =>
                       Plan.tasks[p].title = "Deploy to Production"

\* C25: for every integer timelineWeeks >= 1 and every catalog the timeline
\* rule never increases a duration: the hours of each task are at most the
\* baseline of its archetype, and equal to it when no timeline is given.
C25_NeverIncreases ==
    (NormalPath /\ ClassifiesTexts("breakdown")) =>
        /\ PositiveTimeline =>
               \A p \in 1..Len(Plan.tasks) : Hours(p) <= Catalog[p].duration
        /\ NoTimeline =>
               \A p \in 1..Len(Plan.tasks) : Hours(p) = Catalog[p].duration

\* one week and 12 archetypes, quotient 3 1/3: a 6-hour task goes down to
\* the floor of 4 hours and the 2-hour task, below the quotient, keeps 2
C25_Witness ==
    /\ NormalPath /\ ClassifiesTexts("breakdown")
    /\ last.args[2] = PyInt(1)
    /\ Len(Catalog) = 12
    /\ \E p \in 1..Len(Plan.tasks) : Catalog[p].duration = 6 /\ Hours(p) = 4
    /\ \E p \in 1..Len(Plan.tasks) : Catalog[p].duration = 2 /\ Hours(p) = 2

\* the call of the same goal and context with no timeline
WithoutTimeline ==
    ExceptException(TryBreakdown(task_templates, priority_keywords,
                                 last.args[1], PyNone, last.args[3]),
                    last.args[1])

ZeroTimeline == last.args[2] = PyInt(0)

NegativeTimeline == IsInt(last.args[2]) /\ last.args[2].n < 0

\* C26: a zero or negative integer timelineWeeks never triggers the
\* fallback plan.  With 0 the result is exactly that of the call with no
\* timeline: baseline durations, no timeline sentence in the reasoning.
\* With a negative value the result is the normal catalog plan with 4
\* hours for every task.
C26_ZeroOrNegative ==
    (BreakdownReturned /\ ClassifiesTexts("breakdown")) =>
        /\ ZeroTimeline =>
               /\ NormalPath
               /\ last.outcome = WithoutTimeline
               /\ \A p \in 1..Len(Plan.tasks) : Hours(p) = Catalog[p].duration
               /\ ~Contains("Adjusted task durations", Plan.reasoning)
        /\ NegativeTimeline =>
               /\ NormalPath
               /\ Len(Plan.tasks) = Len(Catalog)
               /\ \A p \in 1..Len(Plan.tasks) :
                      /\ Hours(p) = 4
                      /\ Plan.tasks[p].title
                             = Substituted(Catalog[p].title, last.args[1].s)

\* timelineWeeks = -1 for a learning goal: the normal plan of 10 tasks,
\* 40 hours, where the baselines sum to more
C26_Witness ==
    /\ NormalPath /\ ClassifiesTexts("breakdown")
    /\ last.args[1] = PyStr("Learn Python")
    /\ last.args[2] = PyInt(-1)
    /\ Len(Plan.tasks) = 10
    /\ PlanHours = 40
    /\ \E p \in 1..Len(Plan.tasks) : Catalog[p].duration > 4

OffsetOf(j) == Plan.tasks[j + 1].due_date_offset_days

\* C27: in every plan returned, normal or fallback, the due_date_offset_days
\* of each task is strictly greater than that of every task it depends on:
\* no task is due before, or on the day of, one of its prerequisites.
C27_DueAfterPrerequisites ==
    BreakdownReturned =>
        \A i \in 0..(Len(Plan.tasks) - 1) :
            \A k \in 1..Len(Plan.tasks[i + 1].dependencies) :
                LET j == Plan.tasks[i + 1].dependencies[k]
                IN  /\ j \in 0..(Len(Plan.tasks) - 1)
                    /\ OffsetOf(i) > OffsetOf(j)

\* "Deploy to Production" at index 9, due on day 18, waits for the tasks
\* at 6, 7 and 8, due on days 12, 14 and 16
C27_Witness ==
    /\ NormalPath
    /\ Len(Plan.tasks) = 12
    /\ Elements(Plan.tasks[10].dependencies) = {6, 7, 8}
    /\ OffsetOf(9) = 18
    /\ OffsetOf(6) = 12 /\ OffsetOf(8) = 16

---------------------------------------------------------------------------
(* Claims about the store *)

\* the request answered last succeeded
Succeeded(op) == response.op = op /\ response.code = 200

\* the rows of a table kept under the ids given
Kept(before, after, ids) ==
    \A id \in ids : id \in DOMAIN after /\ after[id] = before[id]

\* C21: a successful delete_goal(g) leaves no plan of g and no task of such a
\* plan, and leaves every other goal, plan and task as it was and adds none;
\* a successful delete_plan(p) removes p and the tasks of p and nothing else.
C21_DeleteCascades ==
    [][ /\ ( response'.op = "delete_goal" /\ response'.code = 200 ) =>
            LET g == response'.args[1]
                gone_plans == {p \in DOMAIN db_plans : db_plans[p].goal_id = g}
                gone_tasks == {t \in DOMAIN db_tasks :
                                  db_tasks[t].plan_id \in gone_plans}
            IN  /\ g \notin DOMAIN db_goals'
                /\ \A p \in DOMAIN db_plans' : db_plans'[p].goal_id # g
                /\ \A t \in DOMAIN db_tasks' :
                       db_tasks'[t].plan_id \notin gone_plans
                /\ DOMAIN db_goals' = DOMAIN db_goals \ {g}
                /\ DOMAIN db_plans' = DOMAIN db_plans \ gone_plans
                /\ DOMAIN db_tasks' = DOMAIN db_tasks \ gone_tasks
                /\ Kept(db_goals, db_goals', DOMAIN db_goals \ {g})
                /\ Kept(db_plans, db_plans', DOMAIN db_plans \ gone_plans)
                /\ Kept(db_tasks, db_tasks', DOMAIN db_tasks \ gone_tasks)
        /\ ( response'.op = "delete_plan" /\ response'.code = 200 ) =>
            LET p == response'.args[1]
                gone_tasks == {t \in DOMAIN db_tasks : db_tasks[t].plan_id = p}
            IN  /\ db_goals' = db_goals
                /\ DOMAIN db_plans' = DOMAIN db_plans \ {p}
                /\ DOMAIN db_tasks' = DOMAIN db_tasks \ gone_tasks
                /\ Kept(db_plans, db_plans', DOMAIN db_plans \ {p})
                /\ Kept(db_tasks, db_tasks', DOMAIN db_tasks \ gone_tasks)
    ]_vars

\* a goal with a plan and tasks was deleted while another goal with a plan
\* and tasks was in the store
C21_Witness ==
    /\ Succeeded("delete_goal")
    /\ served = 3
    /\ response.args[1] \notin DOMAIN db_goals
    /\ DOMAIN db_goals # {}
    /\ DOMAIN db_plans # {}
    /\ Cardinality(DOMAIN db_tasks) >= 10

\* C22: after generate_task_plan, every value in the dependencies of a task
\* it stored is the id of another task of the same plan.
C22_DependenciesAreTaskIds ==
    Succeeded("generate_task_plan") =>
        \A t \in Elements(response.tasks) :
            \A d \in Elements(db_tasks[t].dependencies) :
                /\ d # t
                /\ d \in DOMAIN db_tasks
                /\ db_tasks[d].plan_id = db_tasks[t].plan_id

\* C28: a generate_task_plan answered with 500 leaves the store as it was;
\* one answered with 200 adds exactly one goal, one plan of that goal and one
\* task of that plan per task of the engine.
C28_AllOrNothing ==
    [][ response'.op = "generate_task_plan" =>
            IF response'.code = 500
            THEN /\ db_goals' = db_goals
                 /\ db_plans' = db_plans
                 /\ db_tasks' = db_tasks
            ELSE LET new_goals == DOMAIN db_goals' \ DOMAIN db_goals
                     new_plans == DOMAIN db_plans' \ DOMAIN db_plans
                     new_tasks == DOMAIN db_tasks' \ DOMAIN db_tasks
                 IN  /\ new_goals = {response'.goal_id}
                     /\ new_plans = {response'.plan_id}
                     /\ db_plans'[response'.plan_id].goal_id = response'.goal_id
                     /\ Cardinality(new_tasks) =
                            Len(LlmResponse(response'.args[1]).tasks)
                     /\ \A t \in new_tasks :
                            db_tasks'[t].plan_id = response'.plan_id
    ]_vars

\* C29: every stored task has one of the priorities low, medium, high, urgent.
C29_PrioritiesValid ==
    \A t \in DOMAIN db_tasks :
        db_tasks[t].priority \in {"low", "medium", "high", "urgent"}

=============================================================================
